---------------------------- MODULE Spec2Model ----------------------------
(***************************************************************************)
(* Drum grid -> notation / playback (breakdowndrums/onlinedrumnotationV2). *)
(*                                                                         *)
(* The module models three parts of the program:                           *)
(*   - the pattern grid with its loop overlay and bake (src/src/App.jsx),  *)
(*   - the notation transcription of one bar (src/src/App.jsx, Notation),  *)
(*   - the playback engine makeAudioEngine (src/src/audio/usePlayback.js). *)
(*                                                                         *)
(* JavaScript arrays are 0-based; rows are TLA+ sequences and At/SetAt     *)
(* translate the index.  A missing array element is "undefined".           *)
(* Times are integers, in units of 1/UnitsPerSecond seconds.               *)
(***************************************************************************)
EXTENDS Integers, Sequences, FiniteSets, TLC

VARIABLES
    \* ---- App state (src/src/App.jsx)
    resolution,     \* useState(8): 4, 8, 16, 32
    bars,           \* useState(2)
    timeSig,        \* useState({n: 4, d: 4})
    baseGrid,       \* instId -> row of cell states
    loopRule,       \* Null or [rowStart, rowEnd, start, length]
    selection,      \* Null or [rowStart, rowEnd, start, endExclusive]
    mergeRests, mergeNotes, dottedNotes,
    keepTiming,     \* useState(true)
    loopModeEnabled, \* useState(true)
    \* ---- Notation output (the bar built by the Notation effect)
    notation,       \* sequence of emitted symbols of bar 0
    beamRequests,   \* the buckets handed to Beam.generateBeams for bar 0
    \* ---- history of the App handlers
    lastClick,      \* the last handler that ran
    timingLog,      \* what the resolution and time-signature changes found:
                    \* [resolution, timeSig, bars, keepTiming, grid], oldest first
    gestureCount,   \* the clicks, drags and key presses on the App so far
    longPressDid,   \* longPress.current.did of Grid (App.jsx 932)
    \* ---- makeAudioEngine closure (src/src/audio/usePlayback.js 79-98)
    audioCtx,       \* "null", or the context's state: "suspended", "running"
    isPlaying,
    transport,      \* [bpm, resolution]
    currentStep,
    nextNoteTime,
    timerId,        \* 0 is null
    activeSources,  \* the Set of started buffer sources: [sample, time, gain]
    buffers,        \* the sample ids that have an AudioBuffer
    onStep,         \* TRUE when a callback is registered
    \* ---- the engine's surroundings
    mounted,        \* the hook's mount effects have run
    currentTime,    \* audioCtx.currentTime
    timers,         \* the interval timers that are live in the window
    pendingPlays,   \* play() calls suspended at their await, in call order
    snapRef,        \* what getGridSnapshot() returns: [grid, columns]
    playhead,       \* the hook's playhead state (usePlayback.js 10)
    hookIsPlaying,  \* the hook's isPlaying state (usePlayback.js 9)
    \* ---- history of the engine
    scheduled,      \* [step, time] of the scheduleStep calls of the last tick
                    \* of the current run that made any
    reported,       \* the arguments of the onStep calls of that tick
    run,            \* what play() set when it last started the scheduler
    lastCall,       \* the play() or stop() that returned last, and how
    playCalls,      \* the number of play() calls so far
    quiet           \* stop() has returned and play() was not called since

appVars == <<resolution, bars, timeSig, baseGrid, loopRule, selection,
             mergeRests, mergeNotes, dottedNotes, keepTiming, loopModeEnabled,
             notation, beamRequests, lastClick, timingLog, gestureCount,
             longPressDid>>

engineVars == <<audioCtx, isPlaying, transport, currentStep, nextNoteTime,
                timerId, activeSources, buffers, onStep>>
envVars == <<mounted, currentTime, timers, pendingPlays, snapRef, playhead,
             hookIsPlaying>>
historyVars == <<scheduled, reported, run, lastCall, playCalls, quiet>>
playbackVars == <<engineVars, envVars, historyVars>>

vars == <<appVars, playbackVars>>

-----------------------------------------------------------------------------
(* Program constants *)

\* CELL (App.jsx 27-31); "undefined" is JavaScript's missing element.
CELL == [OFF |-> "off", ON |-> "on", GHOST |-> "ghost"]
Undefined == "undefined"

\* null (loopRule, selection, timerId, audioCtx, onStep)
Null == [null |-> TRUE]

\* INSTRUMENTS (App.jsx 13-24): the model keeps two rows of the catalogue,
\* in catalogue order: one ghost-enabled (snare), one not (kick).
INSTRUMENTS == <<"snare", "kick">>
InstIds == {INSTRUMENTS[i] : i \in DOMAIN INSTRUMENTS}
RowIdx == 0 .. (Len(INSTRUMENTS) - 1)
InstAt(r) == INSTRUMENTS[r + 1]

\* GHOST_ENABLED (App.jsx 45)
GHOST_ENABLED == {"snare", "tom1", "tom2", "floorTom", "hihat"}

\* the resolution and time-signature buttons (App.jsx 510, 587-591)
RESOLUTIONS == {4, 8, 16, 32}
TIME_SIGS == {[n |-> 4, d |-> 4], [n |-> 3, d |-> 4], [n |-> 6, d |-> 8]}
\* the bar-count buttons clamp to 1..8 (App.jsx 558, 569)
MIN_BARS == 1
MAX_BARS == 8

-----------------------------------------------------------------------------
(* Bounds of the model *)

\* SpecLoop draws grids of at most this many columns ...
MaxLoopColumns == 8
\* ... holding at most this many non-Off cells.
MaxLoopHits == 2
\* SpecNotation draws bars with at most this many sounding steps.
MaxNotationHits == 1
\* SpecEngine: the snapshots have at most this many columns,
MaxSnapColumns == 2
\* the audio clock is observed at most this many clock jumps after 0,
MaxClockJumps == 1
\* and play() is called at most this many times.
MaxPlayCalls == 2
\* SpecRemap draws grids whose hits lie within this many adjacent steps,
MaxRunLength == 2
\* starting at one of the first this many steps or ending with a bar,
MaxRunStart == 4
\* and follows at most this many resolution and time-signature changes.
MaxTimingChanges == 2
\* the clicks, drags and key presses on the App in one behaviour
MaxGestures == 3
\* SpecStale adds bars up to this many.
MaxStaleBars == 2

-----------------------------------------------------------------------------
(* Arithmetic helpers *)

Max(a, b) == IF a >= b THEN a ELSE b
Min(a, b) == IF a <= b THEN a ELSE b

\* Math.round(p / q) for p >= 0, q > 0: floor(p/q + 1/2)
RoundDiv(p, q) == (2 * p + q) \div (2 * q)

\* the mutant of computeStepsPerBar: a rounded 0 is kept
computeStepsPerBarUncoerced(ts, res) == RoundDiv(ts.n * res, ts.d)

\* computeStepsPerBar (App.jsx 137; the same expression at 133)
computeStepsPerBar(ts, res) == Max(1, RoundDiv(ts.n * res, ts.d))

stepsPerBar == computeStepsPerBar(timeSig, resolution)
columns == bars * stepsPerBar

-----------------------------------------------------------------------------
(* JavaScript arrays *)

\* arr[i], undefined when i is no index of arr
At(arr, i) == IF i >= 0 /\ i < Len(arr) THEN arr[i + 1] ELSE Undefined

\* arr[i] = v: a write beyond the end lengthens the array, leaving holes
SetAt(arr, i, v) ==
    [k \in 1 .. Max(Len(arr), i + 1) |->
        IF k = i + 1 THEN v
        ELSE IF k <= Len(arr) THEN arr[k] ELSE Undefined]

\* arr.slice(from, to) for 0 <= from
Slice(arr, from, to) ==
    LET hi == Min(to, Len(arr))
    IN  IF from >= hi THEN << >>
        ELSE [k \in 1 .. (hi - from) |-> arr[from + k]]

\* x ?? CELL.OFF
OrOff(x) == IF x = Undefined THEN CELL.OFF ELSE x

\* Array(n).fill(CELL.OFF)
OffRow(n) == [k \in 1 .. n |-> CELL.OFF]

-----------------------------------------------------------------------------
(* Loop overlay: bakeLoopInto and computedGrid (App.jsx 195-241) *)

\* the mutant of TileRow: a partial final repeat is skipped
TileRowWholeRepeats(row, src, start, length, idx, cols) ==
    LET end == Min(cols, start + ((cols - start) \div length) * length)
    IN  IF idx >= end THEN row
        ELSE [k \in 1 .. Max(Len(row), end) |->
                 IF k - 1 >= idx /\ k - 1 < end
                 THEN OrOff(At(src, (k - 1 - start) % length))
                 ELSE IF k <= Len(row) THEN row[k] ELSE Undefined]

\* the copy loop shared by bakeLoopInto (208-214) and computedGrid (233-239):
\* for idx = from .. cols-1, covered rows get srcByRow[(idx - start) % length];
\* the writes are to distinct cells, so the row after the loop is given cell
\* by cell (a write beyond the end lengthens the row, leaving holes)
TileRow(row, src, start, length, idx, cols) ==
    IF idx >= cols THEN row
    ELSE [k \in 1 .. Max(Len(row), cols) |->
             IF k - 1 >= idx /\ k - 1 < cols
             THEN OrOff(At(src, (k - 1 - start) % length))
             ELSE IF k <= Len(row) THEN row[k] ELSE Undefined]

Covered(rule, r) == r >= rule.rowStart /\ r <= rule.rowEnd

\* the mutant of bakeLoopInto: only whole repeats are materialized
bakeLoopIntoWholeRepeats(prevGrid, rule, cols) ==
    [id \in InstIds |->
        LET r == CHOOSE k \in RowIdx : InstAt(k) = id
            next == prevGrid[id]
        IN  IF Covered(rule, r)
            THEN TileRowWholeRepeats(
                     next, Slice(next, rule.start, rule.start + rule.length),
                     rule.start, rule.length,
                     rule.start + rule.length, cols)
            ELSE next]

\* bakeLoopInto(prevGrid, rule), with the columns of the render it closes over
bakeLoopInto(prevGrid, rule, cols) ==
    [id \in InstIds |->
        LET r == CHOOSE k \in RowIdx : InstAt(k) = id
            next == prevGrid[id]
        IN  IF Covered(rule, r)
            THEN TileRow(next, Slice(next, rule.start, rule.start + rule.length),
                         rule.start, rule.length,
                         rule.start + rule.length, cols)
            ELSE next]

\* computedGrid = useMemo(..., [baseGrid, loopRule, columns])
ComputeDerivedGrid(base, rule, cols) ==
    IF rule = Null \/ rule.length < 2 THEN base
    ELSE [id \in InstIds |->
            LET r == CHOOSE k \in RowIdx : InstAt(k) = id
            IN  IF Covered(rule, r)
                THEN TileRow(base[id],
                             Slice(base[id], rule.start, rule.start + rule.length),
                             rule.start, rule.length,
                             rule.start + rule.length, cols)
                ELSE base[id]]

computedGrid == ComputeDerivedGrid(baseGrid, loopRule, columns)

-----------------------------------------------------------------------------
(* Notation transcription of one bar (App.jsx 1146-1641)                   *)
(*                                                                         *)
(* props is the record of the component's props:                           *)
(*   [grid, resolution, stepsPerBar, timeSig, mergeRests, mergeNotes,      *)
(*    dottedNotes].                                                        *)
(* A symbol is the StaveNote pushed by pushNote with its noteStarts entry: *)
(*   [start, steps, duration, rest, dotted, keys, ghostKeyIndices].        *)
(***************************************************************************)

\* NOTATION_MAP[inst.id].key (App.jsx 48-63)
NOTATION_MAP == [snare |-> "c/5", kick |-> "f/4"]

\* GHOST_NOTATION_ENABLED (App.jsx 33)
GHOST_NOTATION_ENABLED == {"snare", "tom1", "tom2", "floorTom", "hihat"}

\* beamGroupsPerBar (App.jsx 1204-1209 and 1325-1330)
beamGroupsPerBar(ts) ==
    IF ts.d = 8 /\ ts.n % 3 = 0 /\ ts.n > 3 THEN ts.n \div 3 ELSE ts.n

\* Math.floor(step / groupSizeSteps), groupSizeSteps = stepsPerBar /
\* beamGroupsPerBar (a fraction in 6/8 at resolution 4): floor(step*groups/spb)
BeamGroupOf(props, step) ==
    (step * beamGroupsPerBar(props.timeSig)) \div props.stepsPerBar

\* the mutant of inSameBeamGroup: the end is taken as a step of the symbol
inSameBeamGroupInclusiveEnd(props, startStep, endExclusiveStep) ==
    BeamGroupOf(props, startStep) = BeamGroupOf(props, endExclusiveStep - 2)

\* inSameBeamGroup (App.jsx 1332-1335)
inSameBeamGroup(props, startStep, endExclusiveStep) ==
    BeamGroupOf(props, startStep) = BeamGroupOf(props, endExclusiveStep - 1)

\* hasAnyHitAt / isStepEmpty (App.jsx 1313-1320)
hasAnyHitAt(props, absIdx) ==
    \E id \in InstIds : OrOff(At(props.grid[id], absIdx)) # CELL.OFF
isStepEmpty(props, absIdx) == ~hasAnyHitAt(props, absIdx)

\* keys and ghostKeyIndices of one step (App.jsx 1295-1306): a cell counts
\* when it is !== CELL.OFF, which a missing cell (undefined) is
RECURSIVE KeysFrom(_, _, _)
KeysFrom(props, globalIdx, r) ==
    IF r >= Len(INSTRUMENTS) THEN [keys |-> << >>, ghostKeyIndices |-> << >>]
    ELSE LET val == At(props.grid[InstAt(r)], globalIdx)
             rest == KeysFrom(props, globalIdx, r + 1)
         IN  IF val # CELL.OFF
             THEN [keys |-> <<NOTATION_MAP[InstAt(r)]>> \o rest.keys,
                   ghostKeyIndices |->
                       (IF val = CELL.GHOST /\ InstAt(r) \in GHOST_NOTATION_ENABLED
                        THEN <<0>> ELSE << >>)
                       \o [k \in 1 .. Len(rest.ghostKeyIndices) |->
                              rest.ghostKeyIndices[k] + 1]]
             ELSE rest

\* dur (App.jsx 1263)
BaseDuration(res) ==
    IF res = 4 THEN "q" ELSE IF res = 8 THEN "8" ELSE IF res = 16 THEN "16" ELSE "32"

NoMerge == [steps |-> 0]
Merged(duration, steps, dotted) ==
    [steps |-> steps, duration |-> duration, dotted |-> dotted]

\* the dotted extension of a two-step merge (App.jsx 1346-1353, 1382-1389,
\* 1468-1475)
DotAfterTwo(props, b, s) ==
    /\ props.dottedNotes /\ props.mergeNotes
    /\ s + 2 < props.stepsPerBar
    /\ isStepEmpty(props, b * props.stepsPerBar + (s + 2))
    /\ inSameBeamGroup(props, s, s + 3)

AllEmpty(props, b, s, from, to) ==
    \A k \in from .. to : isStepEmpty(props, b * props.stepsPerBar + (s + k))

\* canLen (App.jsx 1411-1419)
canLen(props, b, s, len) ==
    /\ s % len = 0
    /\ ~(s + (len - 1) >= props.stepsPerBar)
    /\ inSameBeamGroup(props, s, s + len)
    /\ AllEmpty(props, b, s, 1, len - 1)

\* the 32nd-grid ladder for a hit (App.jsx 1402-1453)
Ladder32(props, b, s) ==
    LET len == IF canLen(props, b, s, 8) THEN 8
               ELSE IF canLen(props, b, s, 4) THEN 4
               ELSE IF canLen(props, b, s, 2) THEN 2 ELSE 1
        extra == len \div 2
        dotted == /\ props.dottedNotes /\ len >= 2
                  /\ s + (len + extra - 1) < props.stepsPerBar
                  /\ inSameBeamGroup(props, s, s + len + extra)
                  /\ AllEmpty(props, b, s, len, len + extra - 1)
        dur == IF len = 8 THEN "q" ELSE IF len = 4 THEN "8"
               ELSE IF len = 2 THEN "16" ELSE "32"
    IN  Merged(dur, IF dotted THEN len + extra ELSE len, dotted)

\* --- Merge NOTES --- (App.jsx 1339-1480), for a sounding step s of bar b
MergeNote(props, b, s) ==
    LET res == props.resolution
        spb == props.stepsPerBar
        stepsPerBeatN == Max(1, RoundDiv(res, props.timeSig.d))
        subInBeat == s % stepsPerBeatN
        two(duration) ==
            IF DotAfterTwo(props, b, s) THEN Merged(duration, 3, TRUE)
            ELSE Merged(duration, 2, FALSE)
    IN  IF /\ res = 8 /\ stepsPerBeatN = 2 /\ subInBeat = 0 /\ s + 1 < spb
           /\ AllEmpty(props, b, s, 1, 1)
        THEN two("q")
        ELSE IF /\ res = 16 /\ stepsPerBeatN = 4 /\ subInBeat = 0 /\ s + 3 < spb
                /\ AllEmpty(props, b, s, 1, 3)
        THEN Merged("q", 4, FALSE)
        ELSE IF /\ res = 16 /\ stepsPerBeatN = 4 /\ subInBeat \in {0, 2}
                /\ s + 1 < spb /\ AllEmpty(props, b, s, 1, 1)
        THEN two("8")
        ELSE IF res = 32 /\ stepsPerBeatN \in {8, 4}
        THEN Ladder32(props, b, s)
        ELSE IF /\ res = 16 /\ stepsPerBeatN = 2 /\ subInBeat = 0 /\ s + 1 < spb
                /\ AllEmpty(props, b, s, 1, 1)
        THEN two("8")
        ELSE NoMerge

\* the mutant of MergeRest: silent steps are never merged
MergeRestNever(props, b, s) == NoMerge

\* --- Merge RESTS --- (App.jsx 1483-1584), for a silent step s of bar b
MergeRest(props, b, s) ==
    LET res == props.resolution
        spb == props.stepsPerBar
        stepsPerBeatN == Max(1, RoundDiv(res, props.timeSig.d))
        subInBeat == s % stepsPerBeatN
        silentRun(subs, len) ==
            /\ subInBeat \in subs /\ s + (len - 1) < spb
            /\ AllEmpty(props, b, s, 1, len - 1)
    IN  IF res = 8 /\ stepsPerBeatN = 2 /\ silentRun({0}, 2)
        THEN Merged("q", 2, FALSE)
        ELSE IF res = 16 /\ stepsPerBeatN = 4 /\ silentRun({0}, 4)
        THEN Merged("q", 4, FALSE)
        ELSE IF res = 16 /\ stepsPerBeatN = 4 /\ silentRun({0, 2}, 2)
        THEN Merged("8", 2, FALSE)
        ELSE IF res = 32 /\ stepsPerBeatN = 8 /\ silentRun({0}, 8)
        THEN Merged("q", 8, FALSE)
        ELSE IF res = 32 /\ stepsPerBeatN = 8 /\ silentRun({0, 4}, 4)
        THEN Merged("8", 4, FALSE)
        ELSE IF res = 32 /\ stepsPerBeatN = 8 /\ silentRun({0, 2, 4, 6}, 2)
        THEN Merged("16", 2, FALSE)
        ELSE IF res = 32 /\ stepsPerBeatN = 4 /\ silentRun({0}, 4)
        THEN Merged("8", 4, FALSE)
        ELSE IF res = 32 /\ stepsPerBeatN = 4 /\ silentRun({0, 2}, 2)
        THEN Merged("16", 2, FALSE)
        ELSE IF res = 16 /\ stepsPerBeatN = 2 /\ silentRun({0}, 2)
        THEN Merged("8", 2, FALSE)
        ELSE NoMerge

\* one pass of the while loop (App.jsx 1292-1601): the symbol pushed at s
SymbolAt(props, b, s) ==
    LET k == KeysFrom(props, b * props.stepsPerBar + s, 0)
        isRest == Len(k.keys) = 0
        m == IF props.mergeNotes /\ ~isRest THEN MergeNote(props, b, s)
             ELSE IF props.mergeRests /\ isRest THEN MergeRest(props, b, s)
             ELSE NoMerge
    IN  IF m.steps > 0
        THEN [start |-> s, steps |-> m.steps, duration |-> m.duration,
              rest |-> isRest, dotted |-> m.dotted, merged |-> m.steps > 1,
              keys |-> IF isRest THEN <<"b/4">> ELSE k.keys,
              ghostKeyIndices |-> k.ghostKeyIndices]
        ELSE [start |-> s, steps |-> 1, duration |-> BaseDuration(props.resolution),
              rest |-> isRest, dotted |-> FALSE, merged |-> FALSE,
              keys |-> IF isRest THEN <<"b/4">> ELSE k.keys,
              ghostKeyIndices |-> k.ghostKeyIndices]

\* the mutant of BarSymbols: the scan moves on by one step after every symbol
RECURSIVE BarSymbolsEveryStep(_, _, _)
BarSymbolsEveryStep(props, b, s) ==
    IF ~(s < props.stepsPerBar) THEN << >>
    ELSE <<SymbolAt(props, b, s)>> \o BarSymbolsEveryStep(props, b, s + 1)

\* notes / noteStarts of bar b (App.jsx 1287-1601)
RECURSIVE BarSymbols(_, _, _)
BarSymbols(props, b, s) ==
    IF ~(s < props.stepsPerBar) THEN << >>
    ELSE LET sym == SymbolAt(props, b, s)
         IN  <<sym>> \o BarSymbols(props, b, s + sym.steps)

\* the mutant of BucketOf: the bar is one bucket
BucketOfWholeBar(props, st) == 0

\* g = Math.max(0, Math.min(beamGroupsPerBar - 1, Math.floor(st /
\* groupSizeSteps))) (App.jsx 1631)
BucketOf(props, st) ==
    Max(0, Min(beamGroupsPerBar(props.timeSig) - 1, BeamGroupOf(props, st)))

\* groupBuckets[g] (App.jsx 1627-1633): the start steps (noteStarts) of the
\* symbols pushed to bucket g, in the order of the bar
RECURSIVE Bucket(_, _, _, _)
Bucket(props, symbols, g, i) ==
    IF i > Len(symbols) THEN << >>
    ELSE (IF BucketOf(props, symbols[i].start) = g
          THEN <<symbols[i].start>> ELSE << >>)
         \o Bucket(props, symbols, g, i + 1)

\* groupBuckets.forEach: one Beam.generateBeams call for each bucket that is
\* not empty (App.jsx 1634-1638), from bucket g on
RECURSIVE BeamRequestsFrom(_, _, _)
BeamRequestsFrom(props, symbols, g) ==
    IF g >= beamGroupsPerBar(props.timeSig) THEN << >>
    ELSE LET bucket == Bucket(props, symbols, g, 1)
         IN  (IF bucket = << >> THEN << >> ELSE <<bucket>>)
             \o BeamRequestsFrom(props, symbols, g + 1)

BeamRequests(props, symbols) == BeamRequestsFrom(props, symbols, 0)

\* what of the props the bucketing reads: timeSig and stepsPerBar
BeamProps == [timeSig |-> timeSig, stepsPerBar |-> stepsPerBar]

\* the props App passes to <Notation> (App.jsx 846-856)
NotationProps ==
    [grid |-> computedGrid, resolution |-> resolution,
     stepsPerBar |-> stepsPerBar, timeSig |-> timeSig,
     mergeRests |-> mergeRests, mergeNotes |-> mergeNotes,
     dottedNotes |-> dottedNotes]

-----------------------------------------------------------------------------
(***************************************************************************)
(* The playback engine: makeAudioEngine (src/src/audio/usePlayback.js      *)
(* 78-238).  Times are integers in units of 1/UnitsPerSecond seconds, a     *)
(* unit in which the engine's constants and every secondsPerStep() of the  *)
(* modelled transports are whole numbers, so the sums are exact.           *)
(***************************************************************************)

\* 1 unit = 2.5 ms
UnitsPerSecond == 400

\* scheduleAheadTimeSec = 0.12 (usePlayback.js 95), in units
scheduleAheadTimeSec == (12 * UnitsPerSecond) \div 100
\* the margin play() adds to currentTime, 0.03 s (usePlayback.js 197), in units
StartMargin == (3 * UnitsPerSecond) \div 100

\* let bpm = 120; let resolution = 16 (usePlayback.js 84-85)
DefaultTransport == [bpm |-> 120, resolution |-> 16]
\* useState(120) (App.jsx 75) and the upper clamp of the BPM buttons (478)
BPMS == {120, 300}
\* what the hook hands to setTransport: a bpm and the App's resolution
Transports == [bpm : BPMS, resolution : {resolution}]

\* the mutant of secondsPerStep: the step of a whole-note count, without the
\* factor 4 of the quarter note
secondsPerStepNoQuarter(t) == (60 * UnitsPerSecond) \div (t.bpm * t.resolution)

\* secondsPerStep (usePlayback.js 126-129): (60 / bpm) * (4 / resolution)
secondsPerStep(t) == (60 * 4 * UnitsPerSecond) \div (t.bpm * t.resolution)

\* the audio clock is observed one look-ahead window after the other
ClockJump == scheduleAheadTimeSec

\* buffers = {} (usePlayback.js 97) and what loadSamples delivers: a buffer
\* for every key of SAMPLE_MAP, which has every instrument and may or may not
\* have the dedicated ghost snare
NoBuffers == {}
SampleSets == {InstIds, InstIds \cup {"snare_ghost"}}

\* gains, in hundredths (usePlayback.js 158-171)
GAIN == [normal |-> 90, snareGhost |-> 60, hihatGhost |-> 30, tomGhost |-> 15,
         ghost |-> 10]

\* run.count: the steps scheduled in the run before those of `scheduled'
NoRun == [startTime |-> 0, startStep |-> 0, columns |-> 1, count |-> 0,
          sameTransport |-> TRUE, sameColumns |-> TRUE]
NoCall == [op |-> "none"]
Played(outcome) == [op |-> "play", outcome |-> outcome]
Stopped(wasPlaying, threw, voices, stopped, steps) ==
    [op |-> "stop", wasPlaying |-> wasPlaying, threw |-> threw,
     voices |-> voices, stopped |-> stopped, steps |-> steps]

\* the closure right after makeAudioEngine() (usePlayback.js 79-98), nothing
\* called yet
PlaybackIdle ==
    /\ audioCtx = "null"
    /\ isPlaying = FALSE
    /\ transport = DefaultTransport
    /\ currentStep = 0
    /\ nextNoteTime = 0
    /\ timerId = 0
    /\ activeSources = {}
    /\ buffers = NoBuffers
    /\ onStep = FALSE
    /\ mounted = FALSE
    /\ currentTime = 0
    /\ timers = {}
    /\ pendingPlays = << >>
    /\ snapRef = [grid |-> [id \in InstIds |-> OffRow(1)], columns |-> 1]
    /\ playhead = 0
    /\ hookIsPlaying = FALSE
    /\ scheduled = << >>
    /\ reported = << >>
    /\ run = NoRun
    /\ lastCall = NoCall
    /\ playCalls = 0
    /\ quiet = FALSE

\* the mutant of trigger: a source is made whether or not there is a buffer
triggerAnyBuffer(sources, instId, time, gainValue) ==
    IF audioCtx = "null" THEN sources
    ELSE sources \cup {[sample |-> instId, time |-> time,
                        gain |-> Max(0, Min(100, gainValue))]}

\* trigger (usePlayback.js 131-148): a source is made, added to activeSources
\* and started only when the sample has a buffer
trigger(sources, instId, time, gainValue) ==
    IF audioCtx = "null" THEN sources
    ELSE IF instId \notin buffers THEN sources
    ELSE sources \cup {[sample |-> instId, time |-> time,
                        gain |-> Max(0, Min(100, gainValue))]}

\* the for loop of scheduleStep over the snapshot's instruments from the r-th
\* on (usePlayback.js 151-172); grid[inst.id]?.[stepIndex] ?? "off"
RECURSIVE TriggerInstruments(_, _, _, _, _, _)
TriggerInstruments(sources, grid, instruments, r, stepIndex, time) ==
    IF r >= Len(instruments) THEN sources
    ELSE LET id == instruments[r + 1]
             state == IF id \in DOMAIN grid
                      THEN OrOff(At(grid[id], stepIndex)) ELSE CELL.OFF
             next ==
                 IF state = CELL.OFF THEN sources
                 ELSE IF state = CELL.GHOST
                 THEN IF id = "snare" /\ "snare_ghost" \in buffers
                      THEN trigger(sources, "snare_ghost", time, GAIN.snareGhost)
                      ELSE IF id = "hihat"
                      THEN trigger(sources, id, time, GAIN.hihatGhost)
                      ELSE IF id \in {"tom1", "tom2", "floorTom"}
                      THEN trigger(sources, id, time, GAIN.tomGhost)
                      ELSE trigger(sources, id, time, GAIN.ghost)
                 ELSE trigger(sources, id, time, GAIN.normal)
         IN  TriggerInstruments(next, grid, instruments, r + 1, stepIndex, time)

\* the loop for the instruments the hook hands over (App.jsx 244), from row r
TriggerRows(sources, grid, r, stepIndex, time) ==
    TriggerInstruments(sources, grid, INSTRUMENTS, r, stepIndex, time)

\* the mutant of ReportStep: the callback gets the step after the scheduled one
ReportNextStep(calls, stepIndex) ==
    IF onStep THEN Append(calls, stepIndex + 1) ELSE calls

\* if (onStep) onStep(stepIndex) (usePlayback.js 173)
ReportStep(calls, stepIndex) ==
    IF onStep THEN Append(calls, stepIndex) ELSE calls

\* the mutant of AdvanceTime: the next event time is taken from the clock
AdvanceFromClock(time) == Max(time, currentTime) + secondsPerStep(transport)

\* nextNoteTime += secondsPerStep() (usePlayback.js 184)
AdvanceTime(time) == time + secondsPerStep(transport)

\* the mutant of getGridSnapshot: the provider closes over the snapshot of
\* the first render
getGridSnapshotFirstRender ==
    [grid |-> [id \in InstIds |-> OffRow(1)], columns |-> 1]

\* getGridSnapshot: () => snapRef.current (usePlayback.js 58)
getGridSnapshot == snapRef

\* the mutant of InHorizon: the horizon is one step further
InHorizonOneStepMore(time) ==
    time < currentTime + scheduleAheadTimeSec + secondsPerStep(transport)

\* nextNoteTime < audioCtx.currentTime + scheduleAheadTimeSec (usePlayback.js
\* 181)
InHorizon(time) == time < currentTime + scheduleAheadTimeSec

\* the while loop of scheduler (usePlayback.js 181-187) on the scheduler state
\* st = [currentStep, nextNoteTime, activeSources, scheduled, reported], the
\* last two being the calls the loop has made so far
RECURSIVE SchedulerLoop(_, _)
SchedulerLoop(st, snap) ==
    IF InHorizon(st.nextNoteTime)
    THEN LET step == st.currentStep + 1
         IN  SchedulerLoop(
                 [currentStep |-> IF step >= snap.columns THEN 0 ELSE step,
                  nextNoteTime |-> AdvanceTime(st.nextNoteTime),
                  activeSources |->
                      TriggerRows(st.activeSources, snap.grid, 0,
                                  st.currentStep, st.nextNoteTime),
                  scheduled |->
                      Append(st.scheduled, [step |-> st.currentStep,
                                            time |-> st.nextNoteTime]),
                  reported |-> ReportStep(st.reported, st.currentStep)],
                 snap)
    ELSE st

\* setOnStep((step) => setPlayhead(step)) (usePlayback.js 22-24): the playhead
\* after the onStep calls of a tick
Playhead(calls) == IF calls = << >> THEN playhead ELSE calls[Len(calls)]

\* a microtask is queued: a play() whose resumeIfNeeded() had nothing to
\* await continues before any timer, event or effect can run
MicroPending == \E i \in DOMAIN pendingPlays : pendingPlays[i].awaiting = "micro"

RemoveAt(seq, i) == [k \in 1 .. (Len(seq) - 1) |-> IF k < i THEN seq[k] ELSE seq[k + 1]]

\* window.setInterval returns an id no live timer has
FreshTimer == CHOOSE n \in 1 .. (Cardinality(timers) + 1) : n \notin timers

\* the mount effects of usePlayback (usePlayback.js 18-24): setTransport with
\* the App's bpm and resolution (121-124) and setOnStep (224-226)
Mount ==
    /\ ~mounted
    /\ mounted' = TRUE
    /\ transport' = [bpm |-> 120, resolution |-> resolution]
    /\ onStep' = TRUE
    /\ UNCHANGED <<audioCtx, isPlaying, currentStep, nextNoteTime, timerId,
                   activeSources, buffers, currentTime, timers, pendingPlays,
                   snapRef, playhead, hookIsPlaying, historyVars, appVars>>

\* setBuffers (usePlayback.js 117-119), called once by initSamples (43)
SetBuffers(next) ==
    /\ mounted /\ ~MicroPending
    /\ buffers = NoBuffers
    /\ buffers' = next
    /\ UNCHANGED <<audioCtx, isPlaying, transport, currentStep, nextNoteTime,
                   timerId, activeSources, onStep, envVars, historyVars, appVars>>

\* setTransport (usePlayback.js 121-124), from the hook's effect on a new bpm
\* or resolution (18-20)
SetTransport(t) ==
    /\ mounted /\ ~MicroPending
    /\ t # transport
    /\ transport' = t
    /\ run' = IF isPlaying THEN [run EXCEPT !.sameTransport = FALSE] ELSE run
    /\ UNCHANGED <<audioCtx, isPlaying, currentStep, nextNoteTime, timerId,
                   activeSources, buffers, onStep, envVars, scheduled, reported,
                   lastCall, playCalls, quiet, appVars>>

\* snapRef.current = {instruments, grid, columns} (usePlayback.js 14-16) and,
\* when columns has changed, the App's clamp of the playhead (App.jsx 306-308)
SnapshotChange(snap) ==
    /\ mounted /\ ~MicroPending
    /\ snap # snapRef
    /\ snapRef' = snap
    /\ run' = IF isPlaying /\ snap.columns # snapRef.columns
              THEN [run EXCEPT !.sameColumns = FALSE] ELSE run
    /\ playhead' = IF snap.columns # snapRef.columns
                   THEN Max(0, Min(snap.columns - 1, playhead)) ELSE playhead
    /\ UNCHANGED <<engineVars, mounted, currentTime, timers, pendingPlays,
                   hookIsPlaying, scheduled, reported, lastCall, playCalls,
                   quiet, appVars>>

\* the mutant of PlayEntry: the scheduler is marked Playing before the await
PlayEntryEager ==
    /\ isPlaying' = TRUE
    /\ UNCHANGED <<currentStep, nextNoteTime, timerId, timers>>

\* what play() assigns before its await (usePlayback.js 190-191): nothing
PlayEntry == UNCHANGED <<isPlaying, currentStep, nextNoteTime, timerId, timers>>

\* engine.play() up to its await (usePlayback.js 190-191), called once the
\* samples are loaded: resumeIfNeeded (108-111) creates the context if there
\* is none (100-106; a new context is suspended or running, as the browser
\* decides) and calls resume() unless it runs. given: the caller named a
\* start step; via: the call came through the hook or went to the engine
PlayCallWith(startStep, given, via) ==
    /\ mounted
    /\ buffers # NoBuffers
    /\ playCalls < MaxPlayCalls
    /\ playCalls' = playCalls + 1
    /\ \E created \in {"suspended", "running"} :
          LET state == IF audioCtx = "null" THEN created ELSE audioCtx
          IN  /\ audioCtx' = state
              /\ pendingPlays' =
                     Append(pendingPlays,
                            [startStep |-> startStep,
                             awaiting |-> IF state = "running" THEN "micro"
                                          ELSE "resume",
                             given |-> given, via |-> via])
    /\ PlayEntry
    /\ quiet' = FALSE
    /\ UNCHANGED <<transport, activeSources, buffers, onStep, mounted,
                   currentTime, snapRef, scheduled, reported, run, lastCall,
                   appVars>>

\* setIsPlaying(true) of the hook's play(), before it awaits engine.play
\* (usePlayback.js 55)
SetIsPlayingOnCall == TRUE

\* the hook's play({startStep}) (usePlayback.js 53-58): setIsPlaying(true),
\* setPlayhead(startStep) and engine.play(() => snapRef.current, {startStep})
PlayCall(startStep) ==
    /\ PlayCallWith(startStep, TRUE, "hook")
    /\ playhead' = startStep
    /\ hookIsPlaying' = SetIsPlayingOnCall

\* the hook's play() with no start step, called after stop() has returned
\* (usePlayback.js 53-58): startStep is the playhead
HookPlayDefault ==
    /\ quiet
    /\ PlayCallWith(playhead, FALSE, "hook")
    /\ hookIsPlaying' = SetIsPlayingOnCall
    /\ UNCHANGED playhead

\* engine.play(getGridSnapshot) with no start step, called after stop() has
\* returned (usePlayback.js 190): startStep defaults to 0
EnginePlayDefault ==
    /\ quiet
    /\ PlayCallWith(0, FALSE, "engine")
    /\ UNCHANGED <<playhead, hookIsPlaying>>

\* the mutant of ClampStart: the start step is taken as given
ClampStartNone(startStep) == startStep

\* maxStep = Math.max(0, (snap.columns ?? 1) - 1) and
\* Math.max(0, Math.min(maxStep, startStep)) (usePlayback.js 194-196)
ClampStart(startStep) ==
    LET maxStep == Max(0, snapRef.columns - 1)
    IN  Max(0, Min(maxStep, startStep))

\* the mutant of PlayBody: play() without "if (isPlaying) return"
PlayBodyUnguarded(startStep) ==
    LET start == ClampStart(startStep)
    IN  /\ currentStep' = start
        /\ nextNoteTime' = currentTime + StartMargin
        /\ isPlaying' = TRUE
        /\ timerId' = FreshTimer
        /\ timers' = timers \cup {FreshTimer}
        /\ scheduled' = << >>
        /\ reported' = << >>
        /\ run' = [startTime |-> currentTime + StartMargin, startStep |-> start,
                   columns |-> snapRef.columns, count |-> 0,
                   sameTransport |-> TRUE, sameColumns |-> TRUE]
        /\ lastCall' = Played("started")

\* play() after its await (usePlayback.js 192-200)
PlayBody(startStep) ==
    IF isPlaying
    THEN /\ lastCall' = Played("noop")
         /\ UNCHANGED <<isPlaying, currentStep, nextNoteTime, timerId, timers,
                        scheduled, reported, run>>
    ELSE LET start == ClampStart(startStep)
         IN  /\ currentStep' = start
             /\ nextNoteTime' = currentTime + StartMargin
             /\ isPlaying' = TRUE
             /\ timerId' = FreshTimer
             /\ timers' = timers \cup {FreshTimer}
             /\ scheduled' = << >>
             /\ reported' = << >>
             /\ run' = [startTime |-> currentTime + StartMargin,
                        startStep |-> start, columns |-> snapRef.columns,
                        count |-> 0,
                        sameTransport |-> TRUE, sameColumns |-> TRUE]
             /\ lastCall' = Played("started")

\* the i-th suspended play() continues: its await is over (a microtask, taken
\* in call order, or the resolution of audioCtx.resume(), which leaves the
\* context running)
PlayResume(i) ==
    /\ i \in DOMAIN pendingPlays
    /\ IF pendingPlays[i].awaiting = "micro"
       THEN \A k \in 1 .. (i - 1) : pendingPlays[k].awaiting # "micro"
       ELSE ~MicroPending
    /\ audioCtx' = "running"
    /\ pendingPlays' = RemoveAt(pendingPlays, i)
    /\ PlayBody(pendingPlays[i].startStep)
    /\ UNCHANGED <<transport, activeSources, buffers, onStep, mounted,
                   currentTime, snapRef, playhead, hookIsPlaying, playCalls,
                   quiet, appVars>>

\* audioCtx.resume() of the i-th suspended play() rejects: resumeIfNeeded and
\* play() reject to the caller (usePlayback.js 110, 191)
PlayReject(i) ==
    /\ i \in DOMAIN pendingPlays
    /\ pendingPlays[i].awaiting = "resume"
    /\ audioCtx = "suspended"
    /\ ~MicroPending
    /\ pendingPlays' = RemoveAt(pendingPlays, i)
    /\ lastCall' = Played("rejected")
    /\ UNCHANGED <<engineVars, mounted, currentTime, timers, snapRef, playhead,
                   hookIsPlaying, scheduled, reported, run, playCalls, quiet,
                   appVars>>

\* the mutant of StopSources: the first src.stop(0) that throws ends the loop
StopSourcesUncaught(sources, throwing) ==
    IF throwing = {} THEN [stopped |-> sources, completed |-> TRUE]
    ELSE [stopped |-> {}, completed |-> FALSE]

\* activeSources.forEach((src) => { try { src.stop(0); } catch (e) {} })
\* (usePlayback.js 214-216): the sources stop(0) was called on, and whether
\* the loop ran to its end
StopSources(sources, throwing) == [stopped |-> sources, completed |-> TRUE]

\* the hook's stop() (usePlayback.js 61-64): engine.stop() (203-222) and
\* setIsPlaying(false); throwing are the sources whose stop(0) throws (none,
\* or one of them)
Stop(throwing) ==
    /\ throwing \subseteq activeSources
    /\ quiet' = TRUE
    /\ hookIsPlaying' = FALSE
    /\ IF ~isPlaying
       THEN /\ throwing = {}
            /\ lastCall' = Stopped(FALSE, FALSE, 0, 0, 0)
            /\ UNCHANGED <<isPlaying, timerId, timers, activeSources,
                           currentStep, nextNoteTime, scheduled, reported, run>>
       ELSE LET r == StopSources(activeSources, throwing)
            IN  /\ isPlaying' = FALSE
                /\ timerId' = 0
                /\ timers' = IF timerId # 0 THEN timers \ {timerId} ELSE timers
                /\ lastCall' = Stopped(TRUE, throwing # {},
                                        Cardinality(activeSources),
                                        Cardinality(r.stopped),
                                        run.count + Len(scheduled))
                /\ scheduled' = << >>
                /\ reported' = << >>
                /\ run' = NoRun
                /\ IF r.completed
                   THEN /\ activeSources' = {}
                        /\ currentStep' = 0
                        /\ nextNoteTime' = 0
                   ELSE UNCHANGED <<activeSources, currentStep, nextNoteTime>>
    /\ UNCHANGED <<audioCtx, transport, buffers, onStep, mounted, currentTime,
                   pendingPlays, snapRef, playhead, playCalls, appVars>>

\* the interval timer t fires: scheduler(getGridSnapshot) (usePlayback.js
\* 176-188, 200)
Tick(t) ==
    /\ t \in timers
    /\ ~MicroPending
    /\ IF audioCtx = "null"
       THEN UNCHANGED <<currentStep, nextNoteTime, activeSources, scheduled,
                        reported, run, playhead>>
       ELSE LET st == SchedulerLoop(
                          [currentStep |-> currentStep,
                           nextNoteTime |-> nextNoteTime,
                           activeSources |-> activeSources,
                           scheduled |-> << >>, reported |-> << >>],
                          getGridSnapshot)
            IN  /\ currentStep' = st.currentStep
                /\ nextNoteTime' = st.nextNoteTime
                /\ activeSources' = st.activeSources
                /\ IF st.scheduled = << >>
                   THEN UNCHANGED <<scheduled, reported, run>>
                   ELSE /\ scheduled' = st.scheduled
                        /\ reported' = st.reported
                        /\ run' = [run EXCEPT !.count = @ + Len(scheduled)]
                /\ playhead' = Playhead(st.reported)
    /\ UNCHANGED <<audioCtx, isPlaying, transport, timerId, buffers, onStep,
                   mounted, currentTime, timers, pendingPlays, snapRef,
                   hookIsPlaying, lastCall, playCalls, quiet, appVars>>

\* the audio clock of a running context advances
ClockAdvance ==
    /\ audioCtx = "running"
    /\ ~MicroPending
    /\ currentTime < MaxClockJumps * ClockJump
    /\ currentTime' = currentTime + ClockJump
    /\ UNCHANGED <<engineVars, mounted, timers, pendingPlays, snapRef, playhead,
                   hookIsPlaying,
                   historyVars, appVars>>

\* src.onended = () => activeSources.delete(src) (usePlayback.js 139), for a
\* source that has started; the sources end in the order of their start times
SourceEnded(src) ==
    /\ src \in activeSources
    /\ src.time < currentTime
    /\ \A other \in activeSources : other.time >= src.time
    /\ ~MicroPending
    /\ activeSources' = activeSources \ {src}
    /\ UNCHANGED <<audioCtx, isPlaying, transport, currentStep, nextNoteTime,
                   timerId, buffers, onStep, envVars, historyVars, appVars>>

-----------------------------------------------------------------------------
(* The handlers of the Selection tab (App.jsx 751-758, 399-407) *)

\* "Bake loop" button onClick
BakeLoopClick ==
    /\ lastClick' = "bake"
    /\ IF loopRule = Null
       THEN UNCHANGED <<baseGrid, loopRule, selection>>
       ELSE /\ baseGrid' = bakeLoopInto(baseGrid, loopRule, columns)
            /\ loopRule' = Null
            /\ selection' = Null
    /\ UNCHANGED <<resolution, bars, timeSig, mergeRests, mergeNotes,
                   dottedNotes, keepTiming, loopModeEnabled, notation,
                   beamRequests, timingLog, gestureCount,
                   longPressDid>>
    /\ UNCHANGED playbackVars

\* onMouseDown outside the grid and the loop UI: dismiss the loop, no bake
DismissLoop ==
    /\ loopRule # Null
    /\ lastClick' = "dismiss"
    /\ loopRule' = Null
    /\ selection' = Null
    /\ UNCHANGED <<resolution, bars, timeSig, baseGrid, mergeRests, mergeNotes,
                   dottedNotes, keepTiming, loopModeEnabled, notation,
                   beamRequests, timingLog, gestureCount,
                   longPressDid>>
    /\ UNCHANGED playbackVars

-----------------------------------------------------------------------------
(* The Timing tab: resolution, time signature, keep timing (App.jsx 139-184, *)
(* 312-323, 500-620)                                                         *)

\* rank (App.jsx 157)
rank(v) == IF v = CELL.ON THEN 2 ELSE IF v = CELL.GHOST THEN 1 ELSE 0

\* the mutant of Collide: the cell written last wins
CollideLastWins(val, cur) == val

\* out[newGlobal] = rank(val) >= rank(cur) ? val : cur (App.jsx 158)
Collide(val, cur) == IF rank(val) >= rank(cur) THEN val ELSE cur

\* the mutant of NewLocal: the ratio is inverted
NewLocalInverse(s, oldStepsPerBar, newStepsPerBar) ==
    RoundDiv(s * oldStepsPerBar, newStepsPerBar)

\* newLocal = Math.round((s * newStepsPerBar) / oldStepsPerBar) (App.jsx 151)
NewLocal(s, oldStepsPerBar, newStepsPerBar) ==
    RoundDiv(s * newStepsPerBar, oldStepsPerBar)

\* the mutant of ClampLocal: newLocal is used as it is
ClampLocalNone(newLocal, newStepsPerBar) == newLocal

\* clamped = Math.min(newStepsPerBar - 1, Math.max(0, newLocal)) (App.jsx 152)
ClampLocal(newLocal, newStepsPerBar) ==
    Min(newStepsPerBar - 1, Max(0, newLocal))

\* the loops over b and s of remapGrid for one instrument (App.jsx 143-160),
\* from the old cell k = b * oldStepsPerBar + s on
RECURSIVE RemapRow(_, _, _, _, _, _)
RemapRow(out, row, nbars, oldStepsPerBar, newStepsPerBar, k) ==
    IF k >= nbars * oldStepsPerBar THEN out
    ELSE LET b == k \div oldStepsPerBar
             s == k % oldStepsPerBar
             val == OrOff(At(row, k))
             newLocal == NewLocal(s, oldStepsPerBar, newStepsPerBar)
             clamped == ClampLocal(newLocal, newStepsPerBar)
             newGlobal == b * newStepsPerBar + clamped
             cur == OrOff(At(out, newGlobal))
         IN  RemapRow(IF val = CELL.OFF THEN out
                      ELSE SetAt(out, newGlobal, Collide(val, cur)),
                      row, nbars, oldStepsPerBar, newStepsPerBar, k + 1)

\* remapGrid (App.jsx 139-162), bars being the App's bar count
remapGrid(prevGrid, nbars, oldStepsPerBar, newStepsPerBar) ==
    [id \in InstIds |->
        RemapRow(OffRow(nbars * newStepsPerBar), prevGrid[id], nbars,
                 oldStepsPerBar, newStepsPerBar, 0)]

\* the mutant of ResizeEffect: the new rows are filled with Off
ResizeEffectFresh(prev, oldColumns, newColumns) ==
    IF newColumns = oldColumns THEN prev
    ELSE [id \in InstIds |-> OffRow(newColumns)]

\* the resize effect (App.jsx 312-323): it runs when columns has changed
ResizeEffect(prev, oldColumns, newColumns) ==
    IF newColumns = oldColumns THEN prev
    ELSE [id \in InstIds |->
             [idx \in 1 .. newColumns |-> OrOff(At(prev[id], idx - 1))]]

\* the entry of timingLog a change appends
TimingEntry ==
    [resolution |-> resolution, timeSig |-> timeSig, bars |-> bars,
     keepTiming |-> keepTiming, grid |-> baseGrid]

\* handleResolutionChange / handleTimeSigChange (App.jsx 164-184) and the
\* resize effect of the render that follows
TimingChange(newRes, newTS) ==
    LET newSPB == computeStepsPerBar(newTS, newRes)
        remapped == IF keepTiming
                    THEN remapGrid(baseGrid, bars, stepsPerBar, newSPB)
                    ELSE baseGrid
    IN  /\ resolution' = newRes
        /\ timeSig' = newTS
        /\ \E next \in {remapped} :
              baseGrid' = ResizeEffect(next, columns, bars * newSPB)

ResolutionOrder == <<4, 8, 16, 32>>
TimeSigOrder == <<[n |-> 4, d |-> 4], [n |-> 3, d |-> 4], [n |-> 6, d |-> 8]>>
IndexIn(order, x) == CHOOSE i \in DOMAIN order : order[i] = x
\* order[(idx + dir + order.length) % order.length]
Neighbour(order, x, dir) ==
    order[((IndexIn(order, x) - 1 + dir + Len(order)) % Len(order)) + 1]

\* the - and + buttons of Resolution (App.jsx 506-531)
ResolutionClick(dir) ==
    /\ Len(timingLog) < MaxTimingChanges
    /\ gestureCount < MaxGestures
    /\ gestureCount' = gestureCount + 1
    /\ TimingChange(Neighbour(ResolutionOrder, resolution, dir), timeSig)
    /\ timingLog' = Append(timingLog, TimingEntry)
    /\ lastClick' = "resolution"
    /\ UNCHANGED <<bars, loopRule, selection, mergeRests, mergeNotes,
                   dottedNotes, keepTiming, loopModeEnabled, notation,
                   beamRequests, longPressDid>>
    /\ UNCHANGED playbackVars

\* the - and + buttons of the time signature (App.jsx 583-617)
TimeSigClick(dir) ==
    /\ Len(timingLog) < MaxTimingChanges
    /\ gestureCount < MaxGestures
    /\ gestureCount' = gestureCount + 1
    /\ TimingChange(resolution, Neighbour(TimeSigOrder, timeSig, dir))
    /\ timingLog' = Append(timingLog, TimingEntry)
    /\ lastClick' = "timeSig"
    /\ UNCHANGED <<bars, loopRule, selection, mergeRests, mergeNotes,
                   dottedNotes, keepTiming, loopModeEnabled, notation,
                   beamRequests, longPressDid>>
    /\ UNCHANGED playbackVars

-----------------------------------------------------------------------------
(* The grid, the selection and the Selection tab (App.jsx 77-126, 312-393, *)
(* 540-569, 698-744, 1010-1126). An action is the handlers of one gesture   *)
(* with the renders and effects that follow them.                           *)

\* selection.endExclusive - selection.start, 0 without a selection
Width(sel) == IF sel = Null THEN 0 ELSE sel.endExclusive - sel.start

\* selectionCellCount (App.jsx 79-82)
selectionCellCount(sel) ==
    IF sel = Null THEN 0
    ELSE Max(0, sel.endExclusive - sel.start) * Max(1, sel.rowEnd - sel.rowStart + 1)

\* the mutant of LoopEffects: the effect on loopModeEnabled is missing
LoopEffectsSelectionOnly(rule, sel, mode) ==
    IF rule # Null /\ Width(sel) < 2 THEN Null ELSE rule

\* the two effects that drop the rule (App.jsx 114-126)
LoopEffects(rule, sel, mode) ==
    IF rule # Null /\ (Width(sel) < 2 \/ ~mode) THEN Null ELSE rule

\* what a handler leaves of the grid, the rule and the selection
GridState(grid, rule, sel) == [baseGrid |-> grid, loopRule |-> rule, selection |-> sel]

inSource(rule, r, idx) ==
    Covered(rule, r) /\ idx >= rule.start /\ idx < rule.start + rule.length

RowOf(inst) == CHOOSE k \in RowIdx : InstAt(k) = inst

\* cycleVelocity (App.jsx 328-359)
cycleVelocity(grid, rule, sel, cols, inst, idx) ==
    IF rule # Null /\ ~inSource(rule, RowOf(inst), idx)
    THEN GridState(bakeLoopInto(grid, rule, cols), Null, Null)
    ELSE LET current == At(grid[inst], idx)
             normalized == IF current = CELL.GHOST THEN CELL.ON ELSE current
             nextVal == IF normalized = CELL.OFF THEN CELL.ON ELSE CELL.OFF
         IN  GridState([grid EXCEPT ![inst] = SetAt(grid[inst], idx, nextVal)],
                       rule, sel)

\* the mutant of toggleGhost: the instrument is not looked up in GHOST_ENABLED
toggleGhostAnyInstrument(grid, rule, sel, cols, inst, idx) ==
    IF rule # Null /\ ~inSource(rule, RowOf(inst), idx)
    THEN GridState(bakeLoopInto(grid, rule, cols), Null, Null)
    ELSE LET current == At(grid[inst], idx)
             nextVal == IF current = CELL.GHOST THEN CELL.ON ELSE CELL.GHOST
         IN  IF current = CELL.OFF THEN GridState(grid, rule, sel)
             ELSE GridState([grid EXCEPT ![inst] = SetAt(grid[inst], idx, nextVal)],
                            rule, sel)

\* toggleGhost (App.jsx 361-393)
toggleGhost(grid, rule, sel, cols, inst, idx) ==
    IF inst \notin GHOST_ENABLED THEN GridState(grid, rule, sel)
    ELSE IF rule # Null /\ ~inSource(rule, RowOf(inst), idx)
    THEN GridState(bakeLoopInto(grid, rule, cols), Null, Null)
    ELSE LET current == At(grid[inst], idx)
             nextVal == IF current = CELL.GHOST THEN CELL.ON ELSE CELL.GHOST
         IN  IF current = CELL.OFF THEN GridState(grid, rule, sel)
             ELSE GridState([grid EXCEPT ![inst] = SetAt(grid[inst], idx, nextVal)],
                            rule, sel)

\* the two loops of Clear and of the Delete key (App.jsx 89-99, 703-713):
\* next[instId][c] = CELL.OFF for the rows and columns of the selection
RECURSIVE ClearColumns(_, _, _)
ClearColumns(row, c, end) ==
    IF c >= end THEN row ELSE ClearColumns(SetAt(row, c, CELL.OFF), c + 1, end)

ClearSelection(prev, sel) ==
    [id \in InstIds |->
        IF RowOf(id) >= sel.rowStart /\ RowOf(id) <= sel.rowEnd
        THEN ClearColumns(prev[id], sel.start, sel.endExclusive)
        ELSE prev[id]]

\* the mutant of RuleOf: the rule covers the first row only
RuleOfFirstRow(sel) ==
    [rowStart |-> sel.rowStart, rowEnd |-> sel.rowStart, start |-> sel.start,
     length |-> sel.endExclusive - sel.start]

\* the rule the mouse-up handlers and the Looping button make of a selection
RuleOf(sel) ==
    [rowStart |-> sel.rowStart, rowEnd |-> sel.rowEnd, start |-> sel.start,
     length |-> sel.endExclusive - sel.start]

OneCell(r, c) == [rowStart |-> r, rowEnd |-> r, start |-> c, endExclusive |-> c + 1]

\* what the gestures on the grid and the Selection tab leave alone
GestureFrame ==
    /\ gestureCount < MaxGestures
    /\ gestureCount' = gestureCount + 1
    /\ UNCHANGED <<mergeRests, mergeNotes, dottedNotes, notation, beamRequests,
                   timingLog>>
    /\ UNCHANGED playbackVars

\* the state a grid handler returns, the effects on the rule having run
Commit(st) ==
    /\ baseGrid' = st.baseGrid
    /\ selection' = st.selection
    /\ loopRule' = LoopEffects(st.loopRule, st.selection, loopModeEnabled)

\* the cell (r, c) starts the long-press timer on pointer down: it sounds and
\* its instrument is ghost-enabled (App.jsx 1059)
StartsTimer(r, c) ==
    /\ OrOff(At(computedGrid[InstAt(r)], c)) # CELL.OFF
    /\ InstAt(r) \in GHOST_ENABLED

\* longPress.current.did after onPointerDown on the cell (r, c) (App.jsx
\* 1056-1068): it is reset only where the timer is started
DidAfterPointerDown(r, c) == IF StartsTimer(r, c) THEN FALSE ELSE longPressDid

\* onClick calls cycleVelocity unless longPress.current.did is set (App.jsx
\* 1083-1087)
ClickReaches(r, c) == ~DidAfterPointerDown(r, c)

\* a click on the cell (r, c): onPointerDown (1056-1068), onMouseDown
\* (1091-1097), onMouseUp (1112-1126) and onClick (1080-1090), which resets
\* longPress.current.did when it is set and calls cycleVelocity otherwise
CellClick(r, c) ==
    /\ GestureFrame
    /\ c < columns
    /\ lastClick' = "cell"
    /\ longPressDid' = FALSE
    /\ LET sel == IF loopRule = Null THEN OneCell(r, c) ELSE selection
       IN  IF ClickReaches(r, c)
           THEN Commit(cycleVelocity(baseGrid, loopRule, sel, columns,
                                     InstAt(r), c))
           ELSE Commit(GridState(baseGrid, loopRule, sel))
    /\ UNCHANGED <<resolution, bars, timeSig, keepTiming, loopModeEnabled>>

\* a long press on the cell (r, c): onPointerDown (1056-1068) starts the timer
\* on a sounding cell of a ghost-enabled instrument, onMouseDown selects the
\* cell, the timer calls toggleGhost and the click that follows is dropped
LongPress(r, c) ==
    /\ GestureFrame
    /\ c < columns
    /\ OrOff(At(computedGrid[InstAt(r)], c)) # CELL.OFF
    /\ InstAt(r) \in GHOST_ENABLED
    /\ lastClick' = "ghost"
    /\ longPressDid' = FALSE
    /\ LET sel == IF loopRule = Null THEN OneCell(r, c) ELSE selection
       IN  Commit(toggleGhost(baseGrid, loopRule, sel, columns, InstAt(r), c))
    /\ UNCHANGED <<resolution, bars, timeSig, keepTiming, loopModeEnabled>>

\* a long press on the cell (r, c) that ends off the cell: the timer sets
\* longPress.current.did and calls toggleGhost (1063-1066), the pointer leaves
\* the cell and is released on the gap or the label of the grid line, whose
\* onMouseUp (1010-1023) finds a selection of one column; no cell gets a click
LongPressLeave(r, c) ==
    /\ GestureFrame
    /\ c < columns
    /\ StartsTimer(r, c)
    /\ lastClick' = "ghostLeave"
    /\ longPressDid' = TRUE
    /\ LET sel == IF loopRule = Null THEN OneCell(r, c) ELSE selection
       IN  Commit(toggleGhost(baseGrid, loopRule, sel, columns, InstAt(r), c))
    /\ UNCHANGED <<resolution, bars, timeSig, keepTiming, loopModeEnabled>>

\* a drag from the cell (r0, c0) to another cell (r1, c1) with no loop active:
\* onMouseDown, onMouseEnter (1098-1111) and onMouseUp (1112-1126)
Drag(r0, c0, r1, c1) ==
    /\ GestureFrame
    /\ loopRule = Null
    /\ c0 < columns /\ c1 < columns
    /\ <<r0, c0>> # <<r1, c1>>
    /\ lastClick' = "drag"
    /\ longPressDid' = DidAfterPointerDown(r0, c0)
    /\ LET sel == [rowStart |-> Min(r0, r1), rowEnd |-> Max(r0, r1),
                   start |-> Min(c0, c1), endExclusive |-> Max(c0, c1) + 1]
       IN  Commit(GridState(baseGrid,
                            IF Width(sel) < 2 THEN Null ELSE RuleOf(sel), sel))
    /\ UNCHANGED <<resolution, bars, timeSig, keepTiming, loopModeEnabled>>

\* the Clear button (App.jsx 698-716)
ClearClick ==
    /\ GestureFrame
    /\ selectionCellCount(selection) >= 2
    /\ lastClick' = "clear"
    /\ Commit(GridState(ClearSelection(baseGrid, selection), Null, Null))
    /\ UNCHANGED <<resolution, bars, timeSig, keepTiming, loopModeEnabled,
                   longPressDid>>

\* the Backspace or Delete key (App.jsx 85-105)
DeleteKey ==
    /\ GestureFrame
    /\ selection # Null
    /\ lastClick' = "delete"
    /\ Commit(GridState(ClearSelection(baseGrid, selection), Null, Null))
    /\ UNCHANGED <<resolution, bars, timeSig, keepTiming, loopModeEnabled,
                   longPressDid>>

\* the Looping button (App.jsx 725-744)
LoopingClick ==
    /\ GestureFrame
    /\ lastClick' = "looping"
    /\ loopModeEnabled' = ~loopModeEnabled
    /\ loopRule' = LoopEffects(IF loopModeEnabled THEN Null
                               ELSE IF Width(selection) >= 2 THEN RuleOf(selection)
                               ELSE loopRule,
                               selection, ~loopModeEnabled)
    /\ UNCHANGED <<resolution, bars, timeSig, baseGrid, selection, keepTiming,
                   longPressDid>>

\* the - and + buttons of Bars (App.jsx 558, 569) and the resize effect
BarsClick(dir) ==
    /\ GestureFrame
    /\ lastClick' = "bars"
    /\ bars' = IF dir < 0 THEN Max(MIN_BARS, bars - 1) ELSE Min(MAX_BARS, bars + 1)
    /\ baseGrid' = ResizeEffect(baseGrid, columns, bars' * stepsPerBar)
    /\ UNCHANGED <<resolution, timeSig, loopRule, selection, keepTiming,
                   loopModeEnabled, longPressDid>>

\* the keep-timing button (App.jsx 540)
KeepTimingClick ==
    /\ GestureFrame
    /\ lastClick' = "keepTiming"
    /\ keepTiming' = ~keepTiming
    /\ UNCHANGED <<resolution, bars, timeSig, baseGrid, loopRule, selection,
                   loopModeEnabled, longPressDid>>

-----------------------------------------------------------------------------
(* SpecLoop: the loop overlay on bounded grids *)

\* the cell states a row can hold: Ghost only on ghost-enabled instruments
CellStates(id) ==
    IF id \in GHOST_ENABLED THEN {CELL.OFF, CELL.ON, CELL.GHOST}
    ELSE {CELL.OFF, CELL.ON}

HitsInRow(row) == Cardinality({k \in DOMAIN row : row[k] # CELL.OFF})

RECURSIVE SumHits(_, _)
SumHits(grid, ids) ==
    IF ids = {} THEN 0
    ELSE LET id == CHOOSE x \in ids : TRUE
         IN  HitsInRow(grid[id]) + SumHits(grid, ids \ {id})

Hits(grid) == SumHits(grid, InstIds)

\* the grid of the first render: every cell Off (App.jsx 188-192)
EmptyGrid(n) == [id \in InstIds |-> OffRow(n)]

\* grids of n columns with at most h non-Off cells in all: the grids that
\* h cell edits (cycleVelocity, toggleGhost) can make of the empty grid
RECURSIVE GridsWithHits(_, _)
GridsWithHits(n, h) ==
    IF h = 0 THEN {EmptyGrid(n)}
    ELSE LET less == GridsWithHits(n, h - 1)
         IN  less \cup
             UNION {{[g EXCEPT ![id][k] = v] : v \in CellStates(id) \ {CELL.OFF}} :
                       g \in less, id \in InstIds, k \in 1 .. n}

\* the rules a committed selection can give on a grid of n columns
\* (Grid onMouseUp, App.jsx 1112-1126: width >= 2)
LoopRules(n) ==
    {[rowStart |-> r0, rowEnd |-> r1, start |-> s, length |-> l] :
        r0 \in RowIdx, r1 \in RowIdx, s \in 0 .. n, l \in 2 .. Max(2, n)}

WellFormedRule(rule, n) ==
    /\ rule.rowStart <= rule.rowEnd
    /\ rule.start + rule.length <= n

SelectionOf(rule) ==
    [rowStart |-> rule.rowStart, rowEnd |-> rule.rowEnd, start |-> rule.start,
     endExclusive |-> rule.start + rule.length]

InitLoop ==
    /\ resolution \in RESOLUTIONS
    /\ timeSig \in TIME_SIGS
    /\ bars = MIN_BARS
    /\ columns <= MaxLoopColumns
    /\ baseGrid \in GridsWithHits(columns, MaxLoopHits)
    /\ loopRule \in {Null} \cup {r \in LoopRules(columns) : WellFormedRule(r, columns)}
    /\ selection = IF loopRule = Null THEN Null ELSE SelectionOf(loopRule)
    /\ mergeRests = TRUE /\ mergeNotes = TRUE /\ dottedNotes = TRUE
    /\ keepTiming = TRUE /\ loopModeEnabled = TRUE
    /\ notation = << >>
    /\ beamRequests = << >>
    /\ timingLog = << >>
    /\ gestureCount = 0
    /\ longPressDid = FALSE
    /\ lastClick = "none"
    /\ PlaybackIdle

NextLoop == BakeLoopClick \/ DismissLoop

SpecLoop == InitLoop /\ [][NextLoop]_vars

-----------------------------------------------------------------------------
(* SpecNotation: the transcription of one bar, re-rendered on every toggle *)

\* the Notation effect (App.jsx 1150, 1666) runs after every render whose
\* props changed; bar 0 of its output
Rendered(props) == BarSymbols(props, 0, 0)

\* "Merge rests" button (App.jsx 771)
ToggleMergeRests ==
    /\ mergeRests' = ~mergeRests
    /\ notation' = Rendered([NotationProps EXCEPT !.mergeRests = ~mergeRests])
    /\ beamRequests' = BeamRequests(BeamProps, notation')
    /\ UNCHANGED <<resolution, bars, timeSig, baseGrid, loopRule, selection,
                   mergeNotes, dottedNotes, keepTiming, loopModeEnabled,
                   lastClick, timingLog, gestureCount,
                   longPressDid>>
    /\ UNCHANGED playbackVars

\* "Merge notes" button (App.jsx 784)
ToggleMergeNotes ==
    /\ mergeNotes' = ~mergeNotes
    /\ notation' = Rendered([NotationProps EXCEPT !.mergeNotes = ~mergeNotes])
    /\ beamRequests' = BeamRequests(BeamProps, notation')
    /\ UNCHANGED <<resolution, bars, timeSig, baseGrid, loopRule, selection,
                   mergeRests, dottedNotes, keepTiming, loopModeEnabled,
                   lastClick, timingLog, gestureCount,
                   longPressDid>>
    /\ UNCHANGED playbackVars

\* "Dotted notes" button, shown while mergeNotes is on (App.jsx 795-798)
ToggleDottedNotes ==
    /\ mergeNotes
    /\ dottedNotes' = ~dottedNotes
    /\ notation' = Rendered([NotationProps EXCEPT !.dottedNotes = ~dottedNotes])
    /\ beamRequests' = BeamRequests(BeamProps, notation')
    /\ UNCHANGED <<resolution, bars, timeSig, baseGrid, loopRule, selection,
                   mergeRests, mergeNotes, keepTiming, loopModeEnabled,
                   lastClick, timingLog, gestureCount,
                   longPressDid>>
    /\ UNCHANGED playbackVars

\* sets of at most h steps out of n
RECURSIVE HitSets(_, _)
HitSets(n, h) ==
    IF h = 0 THEN {{}}
    ELSE LET less == HitSets(n, h - 1)
         IN  less \cup {H \cup {k} : H \in less, k \in 1 .. n}

\* what sounds at a sounding step: some instrument is not Off
Chords ==
    {c \in [InstIds -> {CELL.OFF, CELL.ON, CELL.GHOST}] :
        /\ \A id \in InstIds : c[id] \in CellStates(id)
        /\ \E id \in InstIds : c[id] # CELL.OFF}

\* grids of n columns whose sounding steps, at most h, all hold one chord
ChordGrids(n, h) ==
    {[id \in InstIds |-> [k \in 1 .. n |-> IF k \in H THEN c[id] ELSE CELL.OFF]] :
        H \in HitSets(n, h), c \in Chords}

\* grids of n columns whose sounding steps all start a beat and hold one chord
OnBeatGrids(n, stepsPerBeat) ==
    {[id \in InstIds |-> [k \in 1 .. n |-> IF k \in H THEN c[id] ELSE CELL.OFF]] :
        H \in SUBSET {k \in 1 .. n : (k - 1) % stepsPerBeat = 0}, c \in Chords}

InitNotation ==
    /\ resolution \in RESOLUTIONS
    /\ timeSig \in TIME_SIGS
    /\ bars = MIN_BARS
    /\ baseGrid \in ChordGrids(columns, MaxNotationHits)
                      \cup OnBeatGrids(columns, Max(1, RoundDiv(resolution, timeSig.d)))
    /\ loopRule = Null
    /\ selection = Null
    /\ mergeRests = TRUE /\ mergeNotes = TRUE /\ dottedNotes = TRUE
    /\ keepTiming = TRUE /\ loopModeEnabled = TRUE
    /\ notation = Rendered(NotationProps)
    /\ beamRequests = BeamRequests(BeamProps, notation)
    /\ timingLog = << >>
    /\ gestureCount = 0
    /\ longPressDid = FALSE
    /\ lastClick = "none"
    /\ PlaybackIdle

NextNotation == ToggleMergeRests \/ ToggleMergeNotes \/ ToggleDottedNotes

SpecNotation == InitNotation /\ [][NextNotation]_vars

-----------------------------------------------------------------------------
(* SpecRemap: resolution and time-signature changes on bounded grids *)

\* the first steps of the windows: the first MaxRunStart steps of the grid and
\* the windows that end with the first bar and with the grid
RunStarts(n, spb, len) ==
    {from \in 1 .. Max(1, n - len + 1) :
        from <= MaxRunStart \/ from = spb - len + 1 \/ from = n - len + 1}

\* grids of n columns whose snare hits lie within len adjacent steps, the
\* kick sounding at the first of them unless the snare is On there
RunGrids(n, spb, len) ==
    {[snare |-> [k \in 1 .. n |->
                    IF k >= from /\ k < from + len THEN cells[k - from + 1]
                    ELSE CELL.OFF],
      kick |-> [k \in 1 .. n |->
                    IF k = from /\ cells[1] # CELL.ON THEN CELL.ON ELSE CELL.OFF]] :
        cells \in [1 .. len -> {CELL.OFF, CELL.ON, CELL.GHOST}],
        from \in RunStarts(n, spb, len)}

RemapBars == {1, 2}

InitRemap ==
    /\ resolution \in RESOLUTIONS
    /\ timeSig = [n |-> 4, d |-> 4]
    /\ bars \in RemapBars
    /\ baseGrid \in RunGrids(columns, stepsPerBar, Min(MaxRunLength, columns))
                      \cup (IF bars = 1 /\ resolution = 16
                            THEN OnBeatGrids(columns,
                                             Max(1, RoundDiv(resolution, timeSig.d)))
                            ELSE {})
    /\ loopRule = Null
    /\ selection = Null
    /\ mergeRests = TRUE /\ mergeNotes = TRUE /\ dottedNotes = TRUE
    /\ keepTiming = TRUE
    /\ loopModeEnabled = TRUE
    /\ notation = << >>
    /\ beamRequests = << >>
    /\ lastClick = "none"
    /\ timingLog = << >>
    /\ gestureCount = 0
    /\ longPressDid = FALSE
    /\ PlaybackIdle

NextRemap ==
    \/ \E dir \in {-1, 1} : ResolutionClick(dir)
    \/ \E dir \in {-1, 1} : TimeSigClick(dir)

SpecRemap == InitRemap /\ [][NextRemap]_vars

-----------------------------------------------------------------------------
(* SpecGrid: the App from its first render, under bounded gestures *)

\* the columns the gestures touch: the first two and the last two of the grid
GestureColumns == {c \in 0 .. (columns - 1) : c < 2 \/ c >= columns - 2}

\* the first render (App.jsx 66-77, 108-112, 188-192)
InitGrid ==
    /\ resolution = 8
    /\ bars = 2
    /\ timeSig = [n |-> 4, d |-> 4]
    /\ baseGrid = EmptyGrid(columns)
    /\ loopRule = Null
    /\ selection = Null
    /\ mergeRests = TRUE /\ mergeNotes = TRUE /\ dottedNotes = TRUE
    /\ keepTiming = TRUE
    /\ loopModeEnabled = TRUE
    /\ notation = << >>
    /\ beamRequests = << >>
    /\ lastClick = "none"
    /\ timingLog = << >>
    /\ gestureCount = 0
    /\ longPressDid = FALSE
    /\ PlaybackIdle

NextGrid ==
    \/ \E r \in RowIdx, c \in GestureColumns : CellClick(r, c)
    \/ \E r \in RowIdx, c \in GestureColumns : LongPress(r, c)
    \/ \E r \in RowIdx, c \in GestureColumns : LongPressLeave(r, c)
    \/ \E r0 \in RowIdx, r1 \in RowIdx, c0 \in GestureColumns :
          \E c1 \in {c0, c0 + 1} : r0 <= r1 /\ Drag(r0, c0, r1, c1)
    \/ ClearClick
    \/ DeleteKey
    \/ LoopingClick
    \/ BakeLoopClick
    \/ DismissLoop
    \/ \E dir \in {-1, 1} : BarsClick(dir)
    \/ \E dir \in {-1, 1} : ResolutionClick(dir)
    \/ \E dir \in {-1, 1} : TimeSigClick(dir)
    \/ KeepTimingClick

SpecGrid == InitGrid /\ [][NextGrid]_vars

-----------------------------------------------------------------------------
(* SpecEngine: the engine, its callers and the audio clock *)

\* a grid whose first step sounds on every instrument, as a ghost where the
\* instrument has one, and whose other steps are silent
Downbeat(n) ==
    [id \in InstIds |->
        [k \in 1 .. n |-> IF k > 1 THEN CELL.OFF
                          ELSE IF id \in GHOST_ENABLED THEN CELL.GHOST ELSE CELL.ON]]

\* the snapshots the hook can publish: the silent grid of the first render
\* and, with at least lo columns, the grids with a downbeat
SilentSnapshot == [grid |-> EmptyGrid(1), columns |-> 1]
Snapshots(lo) ==
    {SilentSnapshot} \cup
    {[grid |-> Downbeat(n), columns |-> n] : n \in lo .. MaxSnapColumns}

\* startStep: the last step of the widest snapshot, which the narrower
\* snapshots clamp, down to the App's 0 (App.jsx 278) on a single column
StartSteps == {MaxSnapColumns - 1}

\* the App as first rendered (App.jsx 66-130), its grid untouched
AppIdle ==
    /\ resolution = 8
    /\ bars = MIN_BARS
    /\ timeSig = [n |-> 4, d |-> 4]
    /\ baseGrid = EmptyGrid(columns)
    /\ loopRule = Null
    /\ selection = Null
    /\ mergeRests = TRUE /\ mergeNotes = TRUE /\ dottedNotes = TRUE
    /\ keepTiming = TRUE /\ loopModeEnabled = TRUE
    /\ notation = << >>
    /\ beamRequests = << >>
    /\ timingLog = << >>
    /\ gestureCount = 0
    /\ longPressDid = FALSE
    /\ lastClick = "none"

InitEngine == AppIdle /\ PlaybackIdle

EngineStep(lo) ==
    \/ Mount
    \/ \E next \in SampleSets : SetBuffers(next)
    \/ \E t \in Transports : SetTransport(t)
    \/ \E snap \in Snapshots(lo) : SnapshotChange(snap)
    \/ \E startStep \in StartSteps : PlayCall(startStep)
    \/ \E i \in DOMAIN pendingPlays : PlayResume(i)
    \/ \E i \in DOMAIN pendingPlays : PlayReject(i)
    \/ \E throwing \in {{}} \cup {{src} : src \in activeSources} : Stop(throwing)
    \/ \E t \in timers : Tick(t)
    \/ ClockAdvance
    \/ \E src \in activeSources : SourceEnded(src)

\* the callers keep columns >= 1, as the App does (App.jsx 133-137)
NextEngine == EngineStep(1)

SpecEngine == InitEngine /\ [][NextEngine]_vars

\* SpecHook: the engine with callers that also call play() without a start
\* step once stop() has returned
NextHook ==
    \/ EngineStep(1)
    \/ HookPlayDefault
    \/ EnginePlayDefault

SpecHook == InitEngine /\ [][NextHook]_vars

\* a caller may also publish a snapshot of no columns
NextEngineAnyColumns == EngineStep(0)

SpecEngineAnyColumns == InitEngine /\ [][NextEngineAnyColumns]_vars

-----------------------------------------------------------------------------
(* SpecScheduleStep: scheduleStep on one step of a grid, for any cells and *)
(* any set of loaded buffers                                               *)

\* rows of the catalogue (App.jsx 13-24), in its order, one for each branch
\* of the ghost gains
StepInstruments == <<"tom1", "hihat", "snare", "kick">>
StepInstIds == {StepInstruments[i] : i \in DOMAIN StepInstruments}
\* the keys a sample map can have for them
StepSamples == StepInstIds \cup {"snare_ghost"}
StepGrids == [StepInstIds -> [1 .. 1 -> {CELL.OFF, CELL.ON, CELL.GHOST}]]

InitScheduleStep ==
    /\ AppIdle
    /\ audioCtx = "running"
    /\ isPlaying = TRUE
    /\ transport = DefaultTransport
    /\ currentStep = 0
    /\ nextNoteTime = StartMargin
    /\ timerId = 1
    /\ activeSources = {}
    /\ buffers \in SUBSET StepSamples
    /\ onStep \in BOOLEAN
    /\ mounted = TRUE
    /\ currentTime = 0
    /\ timers = {1}
    /\ pendingPlays = << >>
    /\ snapRef \in [grid : StepGrids, columns : {1}]
    /\ playhead = 0
    /\ hookIsPlaying = isPlaying
    /\ scheduled = << >>
    /\ reported = << >>
    /\ run = NoRun
    /\ lastCall = NoCall
    /\ playCalls = 1
    /\ quiet = FALSE

\* scheduleStep(grid, instruments, currentStep, nextNoteTime)
\* (usePlayback.js 150-174)
ScheduleStepCall ==
    /\ lastCall = NoCall
    /\ activeSources' =
           TriggerInstruments(activeSources, snapRef.grid, StepInstruments, 0,
                              currentStep, nextNoteTime)
    /\ scheduled' = <<[step |-> currentStep, time |-> nextNoteTime]>>
    /\ reported' = ReportStep(reported, currentStep)
    /\ lastCall' = [op |-> "scheduleStep"]
    /\ playhead' = Playhead(reported')
    /\ UNCHANGED <<audioCtx, isPlaying, transport, currentStep, nextNoteTime,
                   timerId, buffers, onStep, mounted, currentTime, timers,
                   pendingPlays, snapRef, hookIsPlaying, run, playCalls, quiet,
                   appVars>>

NextScheduleStep == ScheduleStepCall

SpecScheduleStep == InitScheduleStep /\ [][NextScheduleStep]_vars

-----------------------------------------------------------------------------
(* Claims on the loop overlay, checked under SpecLoop *)

\* rules whose length is below 2: computedGrid ignores them (App.jsx 222)
ShortRules ==
    {[rowStart |-> r0, rowEnd |-> r1, start |-> s, length |-> l] :
        r0 \in RowIdx, r1 \in RowIdx, s \in 0 .. columns, l \in 0 .. 1}

ExampleDerivedRow ==
    <<CELL.ON, CELL.OFF, CELL.ON, CELL.ON, CELL.OFF, CELL.ON, CELL.ON, CELL.OFF>>

\* C1: with an active rule of length >= 2, every cell of a covered row at or
\* after start+length holds base[start + ((idx - start) mod length)], a
\* partial final repeat included; every other cell equals the base grid; with
\* no rule, or a rule shorter than 2, the derived grid is the base grid; and
\* 8 steps, start 0, length 3, source On,Off,On derive On,Off,On,On,Off,On,On,Off.
C1_LoopTiling ==
    LET derived == computedGrid
    IN  /\ loopRule # Null =>
              \A r \in RowIdx :
                  LET id == InstAt(r)
                      row == derived[id]
                      base == baseGrid[id]
                  IN  /\ Len(row) = Len(base)
                      /\ \A idx \in 0 .. (columns - 1) :
                            row[idx + 1] =
                                IF Covered(loopRule, r)
                                   /\ idx >= loopRule.start + loopRule.length
                                THEN base[loopRule.start
                                         + ((idx - loopRule.start) % loopRule.length) + 1]
                                ELSE base[idx + 1]
        /\ loopRule = Null => derived = baseGrid
        /\ \A rule \in ShortRules :
              ComputeDerivedGrid(baseGrid, rule, columns) = baseGrid
        /\ \A r \in RowIdx :
              (/\ columns = 8 /\ loopRule # Null /\ Covered(loopRule, r)
               /\ loopRule.start = 0 /\ loopRule.length = 3
               /\ Slice(baseGrid[InstAt(r)], 0, 3) = <<CELL.ON, CELL.OFF, CELL.ON>>)
              => derived[InstAt(r)] = ExampleDerivedRow

\* C1 witness: the example of the claim, with a truncated final repeat
C1_Witness ==
    /\ columns = 8 /\ loopRule # Null
    /\ loopRule.start = 0 /\ loopRule.length = 3
    /\ loopRule.rowStart = 0 /\ loopRule.rowEnd = 0
    /\ Slice(baseGrid[InstAt(0)], 0, 3) = <<CELL.ON, CELL.OFF, CELL.ON>>
    /\ computedGrid[InstAt(0)] = ExampleDerivedRow
    /\ computedGrid # baseGrid

\* C2: a bake with an active rule replaces the base grid by the derived grid
\* of the same base grid, rule and columns and clears rule and selection, so
\* the derived grid is the same before and after; a bake with no rule leaves
\* the base grid (and the derived grid) unchanged.
C2_BakeMaterializes ==
    [][BakeLoopClick =>
        IF loopRule # Null
        THEN /\ baseGrid' = computedGrid
             /\ loopRule' = Null
             /\ selection' = Null
             /\ computedGrid' = computedGrid
        ELSE /\ baseGrid' = baseGrid
             /\ computedGrid' = computedGrid
             /\ loopRule' = Null]_vars

\* C2 witness: a bake has materialized tiled cells into the base grid
C2_Witness ==
    /\ lastClick = "bake"
    /\ loopRule = Null /\ selection = Null
    /\ Hits(baseGrid) > MaxLoopHits

-----------------------------------------------------------------------------
(* Claims on the transcription, checked under SpecNotation *)

\* C3: no symbol made by a note merge, a rest merge or a dotted extension
\* covers steps of two beam groups: the group of its first step is the group
\* of its last step, floor(st / groupSizeSteps) = floor((st+len-1) / groupSizeSteps).
C3_MergeInsideBeamGroup ==
    LET props == [timeSig |-> timeSig, stepsPerBar |-> stepsPerBar]
    IN  \A i \in DOMAIN notation :
            LET sym == notation[i]
            IN  (sym.merged \/ sym.dotted) =>
                    BeamGroupOf(props, sym.start)
                        = BeamGroupOf(props, sym.start + sym.steps - 1)

\* C3 witness: a dotted note that ends on the last step of its beam group and
\* a merged rest are both in the bar
C3_Witness ==
    /\ \E i \in DOMAIN notation :
          LET props == [timeSig |-> timeSig, stepsPerBar |-> stepsPerBar]
          IN  /\ notation[i].dotted /\ ~notation[i].rest
              /\ BeamGroupOf(props, notation[i].start + notation[i].steps)
                    # BeamGroupOf(props, notation[i].start)
    /\ \E i \in DOMAIN notation : notation[i].rest /\ notation[i].merged

\* the steps of bar 0 where some instrument sounds
SoundingSteps ==
    {s \in 0 .. (stepsPerBar - 1) : hasAnyHitAt([grid |-> computedGrid], s)}

\* start, length, duration and kind of the symbols of the bar
Outline(symbols) ==
    [i \in DOMAIN symbols |->
        <<symbols[i].start, symbols[i].steps, symbols[i].duration,
          symbols[i].rest, symbols[i].dotted>>]

SixteenthBarHitsAt0And8 ==
    /\ resolution = 16 /\ timeSig = [n |-> 4, d |-> 4]
    /\ mergeNotes /\ mergeRests
    /\ SoundingSteps = {0, 8}

\* C12 as stated: the bar of 16ths with hits at 0 and 8 is two symbols, both
\* quarter notes, and no rest.
C12_TwoSymbols ==
    SixteenthBarHitsAt0And8 =>
        /\ Len(notation) = 2
        /\ \A i \in DOMAIN notation :
              notation[i].duration = "q" /\ ~notation[i].rest

\* C12: with mergeNotes and mergeRests on, a 4/4 bar of 16ths with hits only
\* at steps 0 and 8 is four symbols: a quarter note at 0, a quarter rest at 4,
\* a quarter note at 8 and a quarter rest at 12, none dotted.
C12_TwoQuarterNotes ==
    SixteenthBarHitsAt0And8 =>
        Outline(notation) = << <<0, 4, "q", FALSE, FALSE>>,
                               <<4, 4, "q", TRUE, FALSE>>,
                               <<8, 4, "q", FALSE, FALSE>>,
                               <<12, 4, "q", TRUE, FALSE>> >>

\* C12 witness: such a bar has been transcribed, with dotted notes allowed
C12_Witness ==
    /\ SixteenthBarHitsAt0And8 /\ dottedNotes
    /\ Len(notation) = 4
    /\ notation[1].keys = <<"c/5", "f/4">>

\* the beam group of a step: floor(step / groupSizeSteps), the bar having n/3
\* groups in a compound meter and n groups otherwise
GroupCount ==
    IF timeSig.d = 8 /\ timeSig.n % 3 = 0 /\ timeSig.n > 3
    THEN timeSig.n \div 3 ELSE timeSig.n
GroupOfStep(st) == (st * GroupCount) \div stepsPerBar

\* the requests one after the other, from the r-th on
RECURSIVE Flatten(_, _)
Flatten(requests, r) ==
    IF r > Len(requests) THEN << >>
    ELSE requests[r] \o Flatten(requests, r + 1)

\* C13: every symbol of the bar is in exactly one beam request, the one of the
\* beam group floor(startStep / groupSizeSteps); a request holds symbols of one
\* group only and each group has at most one request; in 6/8 at eighths the
\* symbols at steps 0 and 3 are in different requests (steps 0-2 and 3-5).
C13_BeamIsolation ==
    /\ Flatten(beamRequests, 1) = [i \in DOMAIN notation |-> notation[i].start]
    /\ \A r \in DOMAIN beamRequests :
          /\ beamRequests[r] # << >>
          /\ \A k \in DOMAIN beamRequests[r] :
                GroupOfStep(beamRequests[r][k]) = GroupOfStep(beamRequests[r][1])
          /\ r > 1 => GroupOfStep(beamRequests[r - 1][1])
                          < GroupOfStep(beamRequests[r][1])
    /\ (resolution = 8 /\ timeSig = [n |-> 6, d |-> 8]) =>
          /\ GroupCount = 2
          /\ beamRequests = << <<0, 1, 2>>, <<3, 4, 5>> >>

\* C13 witness: a 6/8 bar of eighths with notes at steps 0 and 3 only
C13_Witness ==
    /\ resolution = 8 /\ timeSig = [n |-> 6, d |-> 8]
    /\ SoundingSteps = {0, 3}
    /\ Len(beamRequests) = 2
    /\ beamRequests[1][1] = 0 /\ beamRequests[2][1] = 3
    /\ ~notation[1].rest /\ ~notation[4].rest

\* the length of the undotted note the note merge gives a hit at step s that
\* is followed by the cells of the grid
UndottedNoteSteps(grid, s) ==
    LET probe == [grid |-> [grid EXCEPT !["kick"][s + 1] = CELL.ON],
                  resolution |-> resolution, stepsPerBar |-> stepsPerBar,
                  timeSig |-> timeSig, mergeRests |-> TRUE, mergeNotes |-> TRUE,
                  dottedNotes |-> FALSE]
        m == MergeNote(probe, 0, s)
    IN  [steps |-> Max(1, m.steps),
         duration |-> IF m.steps > 0 THEN m.duration ELSE BaseDuration(resolution)]

\* C14: with mergeRests and mergeNotes on, every rest of the bar has the
\* length and the duration of the undotted note that the note merge would
\* give a hit at the same step before the same cells; the steps a rest covers
\* are all silent; no rest is dotted; an unmerged rest has the base duration.
C14_RestLadderAsNotes ==
    (mergeRests /\ mergeNotes) =>
        LET grid == computedGrid
            props == [grid |-> grid]
        IN  \A i \in DOMAIN notation :
                notation[i].rest =>
                    LET sym == notation[i]
                        asNote == UndottedNoteSteps(grid, sym.start)
                    IN  /\ sym.steps = asNote.steps
                        /\ sym.duration = asNote.duration
                        /\ \A k \in 0 .. (sym.steps - 1) :
                              isStepEmpty(props, sym.start + k)
                        /\ ~sym.dotted
                        /\ sym.steps = 1 => sym.duration = BaseDuration(resolution)

-----------------------------------------------------------------------------
(* Claims on the playback engine, checked under SpecEngine *)

StopCall == \E throwing \in SUBSET activeSources : Stop(throwing)
PlayCalled == \E startStep \in StartSteps : PlayCall(startStep)
PlayResumed == \E i \in DOMAIN pendingPlays : PlayResume(i)
PlayRejected == \E i \in DOMAIN pendingPlays : PlayReject(i)
TickFired == \E t \in timers : Tick(t)

\* C4: a stop() that finds the scheduler Playing cancels the tick timer, calls
\* stop on every source in flight whether or not one of the calls throws,
\* empties activeSources and sets currentStep and nextNoteTime to 0; a stop()
\* that finds it Stopped changes no scheduler state.
C4_StopResets ==
    [][StopCall =>
         IF isPlaying
         THEN /\ ~isPlaying'
              /\ timerId' = 0 /\ timers' = {}
              /\ lastCall'.stopped = Cardinality(activeSources)
              /\ activeSources' = {}
              /\ currentStep' = 0 /\ nextNoteTime' = 0
         ELSE UNCHANGED <<isPlaying, timerId, timers, activeSources,
                          currentStep, nextNoteTime>>]_vars

\* C4 witness: a stop() has ended a run of several steps with several sources
\* in flight, one of which threw
C4_Witness ==
    /\ lastCall.op = "stop" /\ lastCall.wasPlaying /\ lastCall.threw
    /\ lastCall.voices >= 2 /\ lastCall.stopped = lastCall.voices
    /\ lastCall.steps >= 2
    /\ ~isPlaying /\ activeSources = {} /\ currentStep = 0 /\ nextNoteTime = 0

TimerIffPlaying ==
    /\ Cardinality(timers) <= 1
    /\ isPlaying <=> timers # {}
    /\ isPlaying => timers = {timerId}

\* C6: a play() called while the scheduler is Playing, and a play() that finds
\* it Playing when its await is over, change neither currentStep nor
\* nextNoteTime nor the timer; and in every state at most one interval timer is
\* live, and one is live exactly when the scheduler is Playing.
C6_PlayWhilePlaying ==
    /\ []TimerIffPlaying
    /\ [][((PlayCalled \/ PlayResumed) /\ isPlaying) =>
             UNCHANGED <<isPlaying, currentStep, nextNoteTime, timerId, timers>>]_vars

\* C6 witness: a play() has returned without effect in the middle of a run
C6_Witness ==
    /\ lastCall = Played("noop")
    /\ isPlaying /\ timers = {timerId}
    /\ run.count + Len(scheduled) >= 1

\* C7: once stop() has returned and until play() is called again, no step is
\* scheduled and none is reported to onStep.
C7_EagerCancellation == quiet => (scheduled = << >> /\ reported = << >>)

\* C8: the two steps of a play() whose audioCtx.resume() rejects, the call up
\* to the await and the rejection, change neither isPlaying nor the timer nor
\* currentStep nor nextNoteTime.
C8_RejectedPlay ==
    [][(PlayCalled \/ PlayRejected) =>
          UNCHANGED <<isPlaying, currentStep, nextNoteTime, timerId, timers>>]_vars

\* C8 witness: a play() has rejected and the engine is Stopped with no timer
C8_Witness ==
    /\ lastCall = Played("rejected")
    /\ audioCtx = "suspended"
    /\ ~isPlaying /\ timers = {} /\ timerId = 0

StepsOf(log) == [k \in DOMAIN log |-> log[k].step]

\* step b is scheduled right after step a
Follows(a, b, inOrder, cols) ==
    /\ b.time > a.time
    /\ inOrder => b.step = (a.step + 1) % cols

\* C10: onStep is called once for each scheduled step, with its index, in the
\* order of scheduling; event times of consecutive steps strictly increase;
\* while the column count has not changed since play(), the indices start at
\* the clamped start step and follow i, (i + 1) mod columns.
C10_StepCallbacks ==
    [][/\ reported' = StepsOf(scheduled')
       /\ \A k \in 1 .. (Len(scheduled') - 1) :
             Follows(scheduled'[k], scheduled'[k + 1], run'.sameColumns,
                     snapRef'.columns)
       /\ (scheduled' # scheduled /\ scheduled' # << >>) =>
             IF scheduled = << >>
             THEN run'.sameColumns => scheduled'[1].step = run'.startStep
             ELSE Follows(scheduled[Len(scheduled)], scheduled'[1],
                          run'.sameColumns, snapRef'.columns)]_vars

\* C10 witness: the callback has followed the scheduler from the last step
\* of a pattern round to step 0 and on, in one tick that came after another
C10_Witness ==
    /\ isPlaying /\ run.sameColumns /\ snapRef.columns >= 2
    /\ run.startStep = snapRef.columns - 1
    /\ run.count = 1
    /\ Len(reported) >= 2 /\ reported[1] = 0 /\ reported[2] = 1
    /\ StepsOf(scheduled) = reported

-----------------------------------------------------------------------------
(* Claim on the engine given a snapshot of no columns, checked under *)
(* SpecEngineAnyColumns                                              *)

\* C9: a play() that reads a snapshot with columns = 0 leaves the scheduler
\* Stopped, starts no timer and no onStep call follows.
C9_ZeroColumnsRejected ==
    run.columns = 0 => (~isPlaying /\ timers = {} /\ reported = << >>)

-----------------------------------------------------------------------------
(* Claim on scheduleStep, checked under SpecScheduleStep *)

\* the sample and the gain (in hundredths) of the one trigger of a cell
ExpectedSample(id, state) ==
    IF state = CELL.GHOST /\ id = "snare" /\ "snare_ghost" \in buffers
    THEN "snare_ghost" ELSE id
ExpectedGain(id, state) ==
    IF state = CELL.ON THEN 90
    ELSE IF id = "snare" /\ "snare_ghost" \in buffers THEN 60
    ELSE IF id = "hihat" THEN 30
    ELSE IF id \in {"tom1", "tom2", "floorTom"} THEN 15
    ELSE 10
Sounding ==
    {id \in StepInstIds :
        /\ snapRef.grid[id][currentStep + 1] # CELL.OFF
        /\ ExpectedSample(id, snapRef.grid[id][currentStep + 1]) \in buffers}

\* C11: after scheduleStep the sources in flight are exactly one per
\* instrument whose cell at the step is not Off and whose sample has a buffer,
\* at the step's event time, with gain 0.9 for On and, for Ghost, 0.6 on the
\* snare_ghost sample (snare, when loaded), 0.3 hihat, 0.15 toms, 0.1 else; a
\* missing buffer adds no source and the step is still reported to onStep.
C11_TriggerPerCell ==
    lastCall = [op |-> "scheduleStep"] =>
        /\ activeSources =
               {[sample |-> ExpectedSample(id, snapRef.grid[id][currentStep + 1]),
                 time |-> nextNoteTime,
                 gain |-> ExpectedGain(id, snapRef.grid[id][currentStep + 1])] :
                    id \in Sounding}
        /\ Cardinality(activeSources) = Cardinality(Sounding)
        /\ reported = IF onStep THEN <<currentStep>> ELSE << >>

\* C11 witness: a step with a ghost snare that has no ghost sample, a ghost
\* hihat, a ghost tom and a kick without buffer
C11_Witness ==
    /\ lastCall = [op |-> "scheduleStep"]
    /\ buffers = {"tom1", "hihat", "snare"}
    /\ snapRef.grid = [id \in StepInstIds |->
                          <<IF id = "kick" THEN CELL.ON ELSE CELL.GHOST>>]
    /\ Cardinality(activeSources) = 3
    /\ [sample |-> "snare", time |-> nextNoteTime, gain |-> 10] \in activeSources
    /\ reported = <<0>>

-----------------------------------------------------------------------------
(* Claims on the grid remap, checked under SpecRemap *)

LastChange == timingLog[Len(timingLog)]
OldStepsPerBar(e) == computeStepsPerBar(e.timeSig, e.resolution)

\* the old local steps of bar b that land on the new local step t and sound
SourcesOf(row, oldSPB, newSPB, b, t) ==
    {s \in 0 .. (oldSPB - 1) :
        /\ Max(0, Min(newSPB - 1, RoundDiv(s * newSPB, oldSPB))) = t
        /\ row[b * oldSPB + s + 1] # CELL.OFF}

\* C15: after a resolution or time-signature change with keep timing on, the
\* cell (instrument, bar b, local step t) of the base grid is On when an On
\* source cell of bar b lands on t, Ghost when only Ghost source cells do, and
\* Off when no sounding source cell does, a source step s landing on
\* clamp(round(s * newSPB / oldSPB), 0, newSPB - 1).
C15_RemapKeepsHighestRank ==
    (timingLog # << >> /\ LastChange.keepTiming) =>
        LET oldSPB == OldStepsPerBar(LastChange)
            newSPB == stepsPerBar
        IN  \A id \in InstIds :
                LET old == LastChange.grid[id]
                    new == baseGrid[id]
                IN  /\ Len(new) = bars * newSPB
                    /\ \A b \in 0 .. (bars - 1), t \in 0 .. (newSPB - 1) :
                          LET from == {old[b * oldSPB + s + 1] :
                                          s \in SourcesOf(old, oldSPB, newSPB, b, t)}
                          IN  new[b * newSPB + t + 1] =
                                  IF CELL.ON \in from THEN CELL.ON
                                  ELSE IF CELL.GHOST \in from THEN CELL.GHOST
                                  ELSE CELL.OFF

\* C15 witness: in the second bar an On cell and a later Ghost cell of the
\* snare landed on one step, which is On
C15_Witness ==
    /\ timingLog # << >> /\ LastChange.keepTiming
    /\ bars = 2
    /\ stepsPerBar # OldStepsPerBar(LastChange)
    /\ LET oldSPB == OldStepsPerBar(LastChange)
           old == LastChange.grid["snare"]
       IN  \E t \in 0 .. (stepsPerBar - 1) :
               /\ \E s1, s2 \in SourcesOf(old, oldSPB, stepsPerBar, 1, t) :
                     /\ s1 < s2
                     /\ old[oldSPB + s1 + 1] = CELL.ON
                     /\ old[oldSPB + s2 + 1] = CELL.GHOST
               /\ baseGrid["snare"][stepsPerBar + t + 1] = CELL.ON

RoundTrip16To8To16 ==
    /\ Len(timingLog) = 2
    /\ timingLog[1].resolution = 16 /\ timingLog[2].resolution = 8
    /\ resolution = 16
    /\ timingLog[1].timeSig = timeSig /\ timingLog[2].timeSig = timeSig
    /\ timingLog[1].keepTiming /\ timingLog[2].keepTiming

OnEveryFourth(grid) ==
    \A id \in InstIds : \A k \in DOMAIN grid[id] :
        grid[id][k] # CELL.OFF => (k - 1) % 4 = 0

\* C16: after the resolution went 16 -> 8 -> 16 with keep timing on and the
\* time signature unchanged, the base grid is the original grid when all the
\* original hits lay on every 4th sixteenth, and in every case each row has
\* as many cells as the original row.
C16_RemapRoundTrip ==
    RoundTrip16To8To16 =>
        /\ OnEveryFourth(timingLog[1].grid) => baseGrid = timingLog[1].grid
        /\ \A id \in InstIds : Len(baseGrid[id]) = Len(timingLog[1].grid[id])

\* C16 witness: the round trip of a grid with two hits on quarter beats
C16_Witness ==
    /\ RoundTrip16To8To16
    /\ OnEveryFourth(timingLog[1].grid)
    /\ timeSig = [n |-> 4, d |-> 4]
    /\ timingLog[1].grid["snare"][5] = CELL.GHOST
    /\ timingLog[1].grid["snare"][13] = CELL.GHOST
    /\ baseGrid = timingLog[1].grid

\* C16 witness of the lossy case: an off-grid hit has moved, the rows keep
\* their length
C16_WitnessOffGrid ==
    /\ RoundTrip16To8To16
    /\ ~OnEveryFourth(timingLog[1].grid)
    /\ baseGrid # timingLog[1].grid

-----------------------------------------------------------------------------
(* Claims on the grid and the selection, checked under SpecGrid *)

AllOff(grid) == \A id \in InstIds : \A k \in DOMAIN grid[id] : grid[id][k] = CELL.OFF

HasShape(grid, n) == \A id \in InstIds : Len(grid[id]) = n

\* the last gesture was a resolution or time-signature change made with keep
\* timing off, and it changed stepsPerBar
ChangedWithoutKeepTiming ==
    /\ lastClick \in {"resolution", "timeSig"}
    /\ timingLog # << >>
    /\ ~LastChange.keepTiming
    /\ OldStepsPerBar(LastChange) # stepsPerBar

\* C17: after a resolution or time-signature change that changes stepsPerBar
\* while keep timing is off, the base grid has bars * stepsPerBar columns in
\* every row and every cell of it is Off
C17_GridDiscarded ==
    ChangedWithoutKeepTiming => (HasShape(baseGrid, columns) /\ AllOff(baseGrid))

\* C18: every row of the base grid and of the derived grid has
\* bars * stepsPerBar cells
C18_GridShape ==
    HasShape(baseGrid, columns) /\ HasShape(computedGrid, columns)

NoGhost(row) == \A k \in DOMAIN row : row[k] # CELL.GHOST

\* toggleGhost called on the cell idx of inst in the current state
ToggleGhostHere(inst, idx) ==
    toggleGhost(baseGrid, loopRule, selection, columns, inst, idx)

\* the call reaches the toggle: no loop is active, or the cell is in its source
ReachesToggle(inst, idx) ==
    loopRule = Null \/ inSource(loopRule, RowOf(inst), idx)

C20_RuleWellFormed ==
    loopRule # Null =>
        /\ loopRule.length >= 2
        /\ 0 <= loopRule.rowStart /\ loopRule.rowStart <= loopRule.rowEnd
        /\ loopRule.rowEnd < Len(INSTRUMENTS)
        /\ loopRule.start >= 0
        /\ loopRule.start + loopRule.length <= columns

\* C21: a step changes the loop rule only from none to a rule or from a rule
\* to none; after every step a rule is active only beside a selection at
\* least 2 columns wide and with looping mode enabled; and a bake leaves no
\* rule
C21_RuleLifecycle ==
    [][/\ loopRule' # loopRule => (loopRule = Null \/ loopRule' = Null)
       /\ loopRule' # Null => (Width(selection') >= 2 /\ loopModeEnabled')
       /\ lastClick' = "bake" => loopRule' = Null]_vars

\* with looping mode disabled a drag has committed a selection 2 columns wide
\* and no rule is active
C21_Witness ==
    /\ ~loopModeEnabled
    /\ lastClick = "drag"
    /\ Width(selection) >= 2
    /\ loopRule = Null

-----------------------------------------------------------------------------
(* Claims on play() without a start step, checked under SpecHook *)

\* the i-th suspended play() was called with no start step, continues and
\* finds the scheduler Stopped
DefaultPlayStarts(i) ==
    /\ ~pendingPlays[i].given
    /\ ~isPlaying
    /\ PlayResume(i)

\* C22: a play() called with no start step after stop() has returned, on the
\* engine or through the hook, starts the scheduler at step 0
C22_DefaultPlayFromTop ==
    [][\A i \in DOMAIN pendingPlays :
          DefaultPlayStarts(i) => (currentStep' = 0 /\ run'.startStep = 0)]_vars

\* C23: a play() that continues while the scheduler is Stopped sets
\* currentStep to its start step clamped into [0, columns - 1] of the snapshot
\* of that moment and nextNoteTime to the clock plus the margin, marks the
\* scheduler Playing and starts a new timer; the first step a tick of that run
\* schedules is that step at that time
C23_PlayFromStopped ==
    [][/\ \A i \in DOMAIN pendingPlays :
             (PlayResume(i) /\ ~isPlaying) =>
                 /\ currentStep' =
                        Max(0, Min(snapRef.columns - 1, pendingPlays[i].startStep))
                 /\ nextNoteTime' = currentTime + StartMargin
                 /\ isPlaying'
                 /\ timerId' # 0 /\ timerId' \notin timers /\ timerId' \in timers'
       /\ (TickFired /\ isPlaying /\ run.count = 0 /\ scheduled = << >>
             /\ scheduled' # << >>) =>
                 scheduled'[1] = [step |-> run.startStep, time |-> run.startTime]
      ]_vars

\* a play() with start step 1 has started on a single column, at step 0, and
\* the first tick has scheduled step 0 at the start time
C23_Witness ==
    /\ isPlaying
    /\ run.columns = 1 /\ run.startStep = 0
    /\ run.count = 0
    /\ scheduled # << >>
    /\ scheduled[1] = [step |-> 0, time |-> run.startTime]

-----------------------------------------------------------------------------
(* Claims on stepsPerBar, checked under SpecRemap *)

\* time signatures beyond the selectable ones, among them those whose
\* n * resolution / d rounds to 0 at the App's resolution
SigInputs == [n : 1 .. 12, d : {1, 2, 4, 8, 16, 32, 64}]

\* n * resolution / d is below 1/2
RoundsToZero(ts, res) == 2 * ts.n * res < ts.d

\* n * resolution / d is a whole number
Divides(ts, res) == (ts.n * res) % ts.d = 0

\* C24: stepsPerBar is at least 1 for every time signature at the App's
\* resolution, it is 1 where n * resolution / d rounds to 0 and the quotient
\* where that is whole; the App's stepsPerBar and columns are at least 1, and
\* stepsPerBar is 16 for resolution 16 in 4/4
C24_StepsPerBarAtLeastOne ==
    /\ \A ts \in SigInputs : \A res \in {resolution} :
          /\ computeStepsPerBar(ts, res) >= 1
          /\ RoundsToZero(ts, res) => computeStepsPerBar(ts, res) = 1
          /\ Divides(ts, res) => computeStepsPerBar(ts, res) * ts.d = ts.n * res
    /\ stepsPerBar >= 1
    /\ columns >= 1
    /\ (resolution = 16 /\ timeSig = [n |-> 4, d |-> 4]) => stepsPerBar = 16

\* a click on Resolution has led to 16 in 4/4, with 16 steps in the bar
C24_Witness ==
    /\ lastClick = "resolution"
    /\ resolution = 16 /\ timeSig = [n |-> 4, d |-> 4]
    /\ stepsPerBar = 16
    /\ \E ts \in SigInputs : RoundsToZero(ts, resolution)

-----------------------------------------------------------------------------
(* Claims on the symbols of a bar, checked under SpecNotation *)

\* the steps a duration takes at the current resolution: resolution / 4 for a
\* quarter, resolution / 8 for an eighth, ...
DurationDenominator(duration) ==
    IF duration = "q" THEN 4 ELSE IF duration = "8" THEN 8
    ELSE IF duration = "16" THEN 16 ELSE 32

LadderSteps(duration) == resolution \div DurationDenominator(duration)

\* C25: the symbols of the bar tile it: the first starts at step 0, each
\* covers the steps of its duration, or 1.5 times as many when dotted, each
\* next one starts where the one before ends, and the last ends with the bar
C25_SymbolsTileBar ==
    /\ Len(notation) >= 1
    /\ notation[1].start = 0
    /\ \A i \in DOMAIN notation :
          /\ notation[i].steps >= 1
          /\ resolution % DurationDenominator(notation[i].duration) = 0
          /\ 2 * notation[i].steps =
                 (IF notation[i].dotted THEN 3 ELSE 2)
                     * LadderSteps(notation[i].duration)
          /\ i < Len(notation) =>
                 notation[i + 1].start = notation[i].start + notation[i].steps
    /\ notation[Len(notation)].start + notation[Len(notation)].steps = stepsPerBar

\* a bar with a dotted note and a merged rest that ends with the bar
C25_Witness ==
    /\ \E i \in DOMAIN notation : notation[i].dotted /\ ~notation[i].rest
    /\ notation[Len(notation)].rest
    /\ notation[Len(notation)].steps > 1
    /\ notation[Len(notation)].start + notation[Len(notation)].steps = stepsPerBar

\* no instrument sounds at step k of bar 0
Silent(k) == \A id \in InstIds : OrOff(At(computedGrid[id], k)) = CELL.OFF

SilentFromTo(from, to) == \A k \in from .. to : Silent(k)

\* the steps from .. to - 1 lie in the bar and in one beam group
InBarAndGroup(from, to) ==
    /\ to <= stepsPerBar
    /\ BeamGroupOf(BeamProps, from) = BeamGroupOf(BeamProps, to - 1)

\* a hit at step st may take len steps: len is at most a quarter note, st is
\* a multiple of len, the run stays in the bar and the beam group, and
\* nothing sounds in it after the hit
LegalRun(st, len) ==
    /\ 4 * len <= Max(4, resolution)
    /\ st % len = 0
    /\ InBarAndGroup(st, st + len)
    /\ SilentFromTo(st + 1, st + len - 1)

LongestRun(st) ==
    IF LegalRun(st, 8) THEN 8 ELSE IF LegalRun(st, 4) THEN 4
    ELSE IF LegalRun(st, 2) THEN 2 ELSE 1

\* the half run after the run of len steps is silent, in the bar and in the
\* beam group of the hit
DotLegal(st, len) ==
    /\ len >= 2
    /\ InBarAndGroup(st, st + len + len \div 2)
    /\ SilentFromTo(st + len, st + len + len \div 2 - 1)

\* C26: with mergeNotes on every note of the bar has the longest legal run
\* as its length and the duration of that run, and it is dotted, covering the
\* half run too, exactly when dotted notes are on and the half run is legal
C26_LongestLegalNote ==
    mergeNotes =>
        \A i \in DOMAIN notation :
            ~notation[i].rest =>
                LET sym == notation[i]
                    len == LongestRun(sym.start)
                    dot == dottedNotes /\ DotLegal(sym.start, len)
                IN  /\ sym.dotted = dot
                    /\ sym.steps = IF dot THEN len + len \div 2 ELSE len
                    /\ LadderSteps(sym.duration) = len

-----------------------------------------------------------------------------
(* The render between a Bars + click and the resize effect                 *)
(*                                                                         *)
(* setBars re-renders App with the new columns; computedGrid copies the    *)
(* rows of baseGrid as they are (App.jsx 218-241) and Notation's effect    *)
(* draws from them (1149). The resize effect of the same commit then calls *)
(* setBaseGrid (312-323) and the next render draws again. In SpecStale     *)
(* notation holds the symbols drawn for the last bar.                      *)

ShapeSettled == \A id \in InstIds : Len(baseGrid[id]) = columns

LastBarSymbols(grid, nbars) ==
    BarSymbols([NotationProps EXCEPT
                   !.grid = ComputeDerivedGrid(grid, loopRule, nbars * stepsPerBar)],
               nbars - 1, 0)

\* Bars + (App.jsx 569) up to Notation's effect of the first render
BarsGrowRender ==
    /\ ShapeSettled
    /\ bars < MaxStaleBars
    /\ bars' = Min(MAX_BARS, bars + 1)
    /\ notation' = LastBarSymbols(baseGrid, bars')
    /\ beamRequests' = BeamRequests(BeamProps, notation')
    /\ UNCHANGED <<resolution, timeSig, baseGrid, loopRule, selection,
                   mergeRests, mergeNotes, dottedNotes, keepTiming,
                   loopModeEnabled, lastClick, timingLog, gestureCount,
                   longPressDid>>
    /\ UNCHANGED playbackVars

\* the resize effect (App.jsx 312-323) and the render it causes
ResizeRender ==
    /\ ~ShapeSettled
    /\ baseGrid' = ResizeEffect(baseGrid, Len(baseGrid[InstAt(0)]), columns)
    /\ notation' = LastBarSymbols(baseGrid', bars)
    /\ beamRequests' = BeamRequests(BeamProps, notation')
    /\ UNCHANGED <<resolution, bars, timeSig, loopRule, selection,
                   mergeRests, mergeNotes, dottedNotes, keepTiming,
                   loopModeEnabled, lastClick, timingLog, gestureCount,
                   longPressDid>>
    /\ UNCHANGED playbackVars

NextStale == BarsGrowRender \/ ResizeRender

SpecStale == InitNotation /\ [][NextStale]_vars

\* the step at which symbol sym of the last bar starts is beyond every row
BeyondRows(sym) ==
    \A id \in InstIds :
        (bars - 1) * stepsPerBar + sym.start >= Len(baseGrid[id])

\* C29: a symbol drawn for a step beyond the current length of the rows is a
\* rest
C29_ShortRowsSilent ==
    \A i \in DOMAIN notation : BeyondRows(notation[i]) => notation[i].rest

\* the instruments sounding at step k of the last bar, and those of them that
\* are Ghost; a cell beyond the end of a row does not sound
LastBarCell(id, k) == OrOff(At(computedGrid[id], (bars - 1) * stepsPerBar + k))
SoundingAt(k) == {id \in InstIds : LastBarCell(id, k) # CELL.OFF}
GhostAt(k) == {id \in InstIds : LastBarCell(id, k) = CELL.GHOST}

\* the keys of a symbol that its ghostKeyIndices mark
GhostKeys(sym) ==
    {sym.keys[sym.ghostKeyIndices[g] + 1] : g \in DOMAIN sym.ghostKeyIndices}

\* symbol sym is the note of the hits at its start step
NoteOfStep(sym) ==
    /\ ~sym.rest
    /\ Len(sym.keys) = Cardinality(SoundingAt(sym.start))
    /\ {sym.keys[j] : j \in DOMAIN sym.keys}
           = {NOTATION_MAP[id] : id \in SoundingAt(sym.start)}
    /\ Len(sym.ghostKeyIndices) = Cardinality(GhostAt(sym.start))
    /\ GhostKeys(sym) = {NOTATION_MAP[id] : id \in GhostAt(sym.start)}

\* C27: every sounding step of the bar drawn starts a note whose keys are
\* those of the instruments sounding there and whose ghostKeyIndices mark the
\* Ghost ones; a symbol covers only silent steps after its start, a rest
\* starts at a silent step, and every silent step is a rest or lies in a
\* symbol
C27_NoHitLostOrInvented ==
    /\ \A k \in 0 .. stepsPerBar - 1 :
           IF SoundingAt(k) = {}
           THEN \E i \in DOMAIN notation :
                    /\ notation[i].start <= k
                    /\ k < notation[i].start + notation[i].steps
                    /\ notation[i].start = k => notation[i].rest
           ELSE \E i \in DOMAIN notation :
                    notation[i].start = k /\ NoteOfStep(notation[i])
    /\ \A i \in DOMAIN notation :
           /\ \A k \in notation[i].start + 1 ..
                       notation[i].start + notation[i].steps - 1 :
                  SoundingAt(k) = {}
           /\ notation[i].rest => SoundingAt(notation[i].start) = {}

\* what scheduler() does when a timer fires in the current state
TickLoop ==
    SchedulerLoop([currentStep |-> currentStep, nextNoteTime |-> nextNoteTime,
                   activeSources |-> activeSources,
                   scheduled |-> << >>, reported |-> << >>],
                  snapRef)

InColumns(step) == step >= 0 /\ step <= snapRef.columns - 1

\* C28: every step a tick looks up in the grid and reports to onStep is a
\* column of the snapshot that tick has read
C28_TickStepsInColumns ==
    [][TickFired /\ audioCtx # "null" =>
          /\ \A i \in DOMAIN TickLoop.scheduled :
                 InColumns(TickLoop.scheduled[i].step)
          /\ \A i \in DOMAIN TickLoop.reported : InColumns(TickLoop.reported[i])]_vars

\* a timer fires and its scheduler() schedules at least one step
TickScheduled == TickFired /\ nextNoteTime' # nextNoteTime

\* the sources scheduleStep starts at time for step when it reads the cells
\* of the snapshot now published
StepSources(step, time) ==
    {[sample |-> ExpectedSample(id, snapRef.grid[id][step + 1]),
      time |-> time,
      gain |-> ExpectedGain(id, snapRef.grid[id][step + 1])] :
        id \in {d \in InstIds :
                   /\ InColumns(step)
                   /\ snapRef.grid[d][step + 1] # CELL.OFF
                   /\ ExpectedSample(d, snapRef.grid[d][step + 1]) \in buffers}}

SnapshotSources(entries) ==
    UNION {StepSources(entries[i].step, entries[i].time) : i \in DOMAIN entries}

\* C30: the sources a tick starts are those of the cells the snapshot
\* published at the tick holds at the steps the tick schedules, and the step
\* it leaves for the next tick is a column of that snapshot
C30_TickReadsFreshSnapshot ==
    [][TickScheduled =>
          /\ SnapshotSources(scheduled') \subseteq activeSources'
          /\ (activeSources' \ activeSources) \subseteq SnapshotSources(scheduled')
          /\ InColumns(currentStep')]_vars

\* a run started on one column has scheduled the second column of a snapshot
\* published since, and a run started on a silent grid sounds
C30_Witness ==
    /\ isPlaying /\ run.columns = 1 /\ snapRef.columns = 2
    /\ \E i \in DOMAIN scheduled : scheduled[i].step = 1

\* the look-ahead horizon of a tick at the current clock time
Horizon == currentTime + scheduleAheadTimeSec

\* the event times nextNoteTime + k * secondsPerStep that lie before the
\* horizon
DueTimes ==
    {nextNoteTime + k * secondsPerStep(transport) :
        k \in {j \in 0 .. Horizon :
                  nextNoteTime + j * secondsPerStep(transport) < Horizon}}

\* C31: a tick schedules the steps whose event time is before the horizon,
\* one step for each such time, and leaves nextNoteTime at or beyond the
\* horizon; a tick that finds nextNoteTime there already changes nothing and
\* calls nothing
C31_TickFillsHorizon ==
    [][TickFired /\ audioCtx # "null" =>
          /\ nextNoteTime' >= Horizon
          /\ IF DueTimes = {}
             THEN UNCHANGED vars
             ELSE /\ {scheduled'[i].time : i \in DOMAIN scheduled'} = DueTimes
                  /\ Len(scheduled') = Cardinality(DueTimes)
                  /\ Len(reported') = Cardinality(DueTimes)]_vars

\* a tick has filled the horizon and the timer that fired it is still set
C31_Witness ==
    /\ timers # {} /\ audioCtx = "running"
    /\ scheduled # << >>
    /\ nextNoteTime >= Horizon

\* the values stepsPerBar takes for the selectable resolutions and time
\* signatures
StepsPerBarValues ==
    {computeStepsPerBar(ts, res) : ts \in TIME_SIGS, res \in RESOLUTIONS}

\* some cell of bar b of row sounds, the bar having spb steps
BarSounds(row, spb, b) ==
    \E s \in 0 .. (spb - 1) : OrOff(At(row, b * spb + s)) # CELL.OFF

\* C32: for every old stepsPerBar the local step a source step lands on in a
\* bar of the current stepsPerBar is a step of the bar; after a change with
\* keep timing on every row has bars * stepsPerBar cells, none of them
\* missing, and a bar of it sounds exactly when the same bar of the old row
\* did
C32_RemapStaysInBar ==
    /\ \A oldSPB \in StepsPerBarValues :
           \A s \in 0 .. (oldSPB - 1) :
               ClampLocal(NewLocal(s, oldSPB, stepsPerBar), stepsPerBar)
                   \in 0 .. (stepsPerBar - 1)
    /\ (timingLog # << >> /\ LastChange.keepTiming) =>
           \A id \in InstIds :
               /\ Len(baseGrid[id]) = bars * stepsPerBar
               /\ \A k \in DOMAIN baseGrid[id] : baseGrid[id][k] # Undefined
               /\ \A b \in 0 .. (bars - 1) :
                      BarSounds(baseGrid[id], stepsPerBar, b)
                          <=> BarSounds(LastChange.grid[id],
                                        OldStepsPerBar(LastChange), b)

\* a hit on the last step of the first of two bars, which rounds to the first
\* step of the second bar, has landed on the last step of the first bar
C32_Witness ==
    /\ timingLog # << >> /\ LastChange.keepTiming
    /\ bars = 2
    /\ LET oldSPB == OldStepsPerBar(LastChange)
       IN  /\ NewLocal(oldSPB - 1, oldSPB, stepsPerBar) = stepsPerBar
           /\ LastChange.grid["snare"][oldSPB] # CELL.OFF
           /\ ~BarSounds(LastChange.grid["snare"], oldSPB, 1)
           /\ baseGrid["snare"][stepsPerBar] # CELL.OFF
           /\ ~BarSounds(baseGrid["snare"], stepsPerBar, 1)

\* the step changes the bar count and nothing else of the timing
OnlyBarsChange == bars' # bars /\ resolution' = resolution /\ timeSig' = timeSig

\* C33: when only the bar count changes, every row of the new base grid has
\* the new bars * stepsPerBar cells; a cell whose index the old row has too
\* keeps its value and the others are Off
C33_ResizeKeepsByIndex ==
    [][OnlyBarsChange =>
          \A id \in InstIds :
              /\ Len(baseGrid'[id]) = bars' * stepsPerBar
              /\ \A k \in 1 .. (bars' * stepsPerBar) :
                     baseGrid'[id][k] =
                         IF k <= Len(baseGrid[id]) THEN OrOff(baseGrid[id][k])
                         ELSE CELL.OFF]_vars

\* a third bar has been added: the hits of the first and of the last old
\* column are where they were and the new bar is silent
C33_Witness ==
    /\ lastClick = "bars" /\ bars = 3
    /\ baseGrid["snare"][1] # CELL.OFF
    /\ baseGrid["snare"][2 * stepsPerBar] # CELL.OFF
    /\ \A k \in (2 * stepsPerBar + 1) .. (3 * stepsPerBar) :
           baseGrid["snare"][k] = CELL.OFF

\* the second bar and its hit have been dropped, the hit of the first remains
C33_WitnessShrink ==
    /\ lastClick = "bars" /\ bars = 1
    /\ Len(baseGrid["snare"]) = stepsPerBar
    /\ baseGrid["snare"][1] # CELL.OFF

\* the step is a click on a cell of the grid
ClickOnCell == lastClick' = "cell" /\ gestureCount' # gestureCount

\* C38: a click on a cell reaches cycleVelocity: the base grid after it is
\* the one cycleVelocity makes for some cell of the grid, whatever gestures
\* came before the press
C38_ClickNotSwallowed ==
    [][ClickOnCell =>
          \E r \in RowIdx, c \in 0 .. (columns - 1) :
              baseGrid' = cycleVelocity(baseGrid, loopRule, selection, columns,
                                        InstAt(r), c).baseGrid]_vars

-----------------------------------------------------------------------------
(* SpecPress: the App after an unfinished long press *)

\* the grid of the first render with the snare Ghost at step 0
GhostDownbeat ==
    [EmptyGrid(columns) EXCEPT !["snare"] = SetAt(@, 0, CELL.GHOST)]

\* the App after a click on the snare cell of step 0 and a long press on it
\* that ended off the cell (CellClick(0, 0) and LongPressLeave(0, 0) from
\* InitGrid); the gestures are counted from here
InitPress ==
    /\ resolution = 8
    /\ bars = 2
    /\ timeSig = [n |-> 4, d |-> 4]
    /\ baseGrid = GhostDownbeat
    /\ loopRule = Null
    /\ selection = OneCell(0, 0)
    /\ mergeRests = TRUE /\ mergeNotes = TRUE /\ dottedNotes = TRUE
    /\ keepTiming = TRUE
    /\ loopModeEnabled = TRUE
    /\ notation = << >>
    /\ beamRequests = << >>
    /\ lastClick = "ghostLeave"
    /\ timingLog = << >>
    /\ gestureCount = 0
    /\ longPressDid = TRUE
    /\ PlaybackIdle

SpecPress == InitPress /\ [][NextGrid]_vars

\* the state InitPress describes, as SpecGrid reaches it
PressReached ==
    /\ baseGrid = GhostDownbeat /\ selection = OneCell(0, 0)
    /\ loopRule = Null /\ longPressDid /\ lastClick = "ghostLeave"
    /\ resolution = 8 /\ bars = 2 /\ timeSig = [n |-> 4, d |-> 4]
    /\ keepTiming /\ loopModeEnabled /\ timingLog = << >>

\* the gesture bakes the loop and leaves the loop mode: no rule, no
\* selection, and the derived grid is what it was
BakedAndLeft ==
    /\ loopRule' = Null
    /\ selection' = Null
    /\ computedGrid' = computedGrid

\* the click toggled the base cell (r, c) and nothing else, the rule is kept
\* and every generated repeat of the cell shows the new value
SourceEdited(r, c) ==
    /\ loopRule' = loopRule
    /\ baseGrid'[InstAt(r)][c + 1] # baseGrid[InstAt(r)][c + 1]
    /\ \A id \in InstIds : \A k \in DOMAIN baseGrid[id] :
           (id # InstAt(r) \/ k # c + 1) => baseGrid'[id][k] = baseGrid[id][k]
    /\ \A idx \in (loopRule.start + loopRule.length) .. (columns - 1) :
           (idx - loopRule.start) % loopRule.length = c - loopRule.start =>
               computedGrid'[InstAt(r)][idx + 1] = baseGrid'[InstAt(r)][c + 1]

\* C34: while a rule is active a click or a ghost long press on a cell outside
\* the source bakes the loop, clears the rule and the selection and leaves
\* the derived grid as it was; a click on a cell of the source toggles that
\* base cell only, keeps the rule, and the repeats show the change
C34_LoopClick ==
    [][\A r \in RowIdx, c \in GestureColumns :
          (loopRule # Null /\ (CellClick(r, c) \/ LongPress(r, c))) =>
              IF ~inSource(loopRule, r, c) THEN BakedAndLeft
              ELSE CellClick(r, c) => SourceEdited(r, c)]_vars

\* rule has the rows and the start of sel and its width as length
MatchesSelection(rule, sel) ==
    /\ rule.rowStart = sel.rowStart /\ rule.rowEnd = sel.rowEnd
    /\ rule.start = sel.start
    /\ rule.length = sel.endExclusive - sel.start

\* C35: after every step an active rule has a selection beside it and is the
\* rule of that selection (its rows, its start, its width as length); the
\* selection does not change while a rule stays active; and a step that
\* clears the selection leaves no rule
C35_RuleIsSelection ==
    [][/\ loopRule' # Null =>
              (selection' # Null /\ MatchesSelection(loopRule', selection'))
       /\ (loopRule # Null /\ loopRule' # Null) => selection' = selection
       /\ (selection # Null /\ selection' = Null) => loopRule' = Null]_vars

\* a rule over both rows is active beside its selection after a click on a
\* cell of its source
C35_Witness ==
    /\ loopRule # Null /\ selection # Null
    /\ lastClick = "cell"
    /\ MatchesSelection(loopRule, selection)
    /\ loopRule.rowEnd > loopRule.rowStart

\* C36: while no play() call is suspended the hook's isPlaying flag is the
\* engine's isPlaying
C36_FlagFollowsEngine ==
    pendingPlays = << >> => (hookIsPlaying <=> isPlaying)

\* C37: no step a tick schedules has an event time before the clock time of
\* the tick
C37_NeverInThePast ==
    [][TickFired /\ audioCtx # "null" =>
          \A i \in DOMAIN TickLoop.scheduled :
              TickLoop.scheduled[i].time >= currentTime]_vars

-----------------------------------------------------------------------------
(* SpecTick: the scheduler ticks of a running engine, for every tempo and  *)
(* resolution of the toolbar                                               *)

\* the BPM buttons: Math.max(30, v - 1) and Math.min(300, v + 1) from 120
\* (App.jsx 75, 467, 478)
BpmInputs == 30 .. 300

\* the state play() leaves (usePlayback.js 190-201) at clock time 0, with the
\* transport of the hook's effect (18-20).  Where 240 / (bpm * resolution)
\* seconds is not a whole number of units, secondsPerStep rounds it down: the
\* model's loop then makes at least the passes of the program's.
InitTick ==
    /\ resolution \in RESOLUTIONS
    /\ bars = MIN_BARS
    /\ timeSig = [n |-> 4, d |-> 4]
    /\ baseGrid = EmptyGrid(columns)
    /\ loopRule = Null
    /\ selection = Null
    /\ mergeRests = TRUE /\ mergeNotes = TRUE /\ dottedNotes = TRUE
    /\ keepTiming = TRUE /\ loopModeEnabled = TRUE
    /\ notation = << >>
    /\ beamRequests = << >>
    /\ timingLog = << >>
    /\ gestureCount = 0
    /\ longPressDid = FALSE
    /\ lastClick = "none"
    /\ audioCtx = "running"
    /\ isPlaying = TRUE
    /\ \E b \in BpmInputs : transport = [bpm |-> b, resolution |-> resolution]
    /\ currentStep = 0
    /\ nextNoteTime = StartMargin
    /\ timerId = 1
    /\ activeSources = {}
    /\ buffers = InstIds
    /\ onStep = TRUE
    /\ mounted = TRUE
    /\ currentTime = 0
    /\ timers = {1}
    /\ pendingPlays = << >>
    /\ snapRef = [grid |-> Downbeat(MaxSnapColumns), columns |-> MaxSnapColumns]
    /\ playhead = 0
    /\ hookIsPlaying = TRUE
    /\ scheduled = << >>
    /\ reported = << >>
    /\ run = NoRun
    /\ lastCall = NoCall
    /\ playCalls = 1
    /\ quiet = FALSE

NextTick == TickFired \/ ClockAdvance

SpecTick == InitTick /\ [][NextTick]_vars

\* the shortest step of the toolbar's range: 300 bpm at resolution 32, 0.025 s
MinSecondsPerStep == (60 * 4 * UnitsPerSecond) \div (300 * 32)
\* the passes that cover the widest gap between nextNoteTime and the horizon
MaxPassesPerTick ==
    ((MaxClockJumps + 1) * scheduleAheadTimeSec) \div MinSecondsPerStep + 1

\* C39: for every tempo and resolution of the toolbar the step is strictly
\* positive, every pass of a tick's loop moves the event time forward, and the
\* loop leaves the horizon after a bounded number of passes
C39_TickTerminates ==
    isPlaying /\ audioCtx # "null" =>
        /\ secondsPerStep(transport) >= MinSecondsPerStep
        /\ MinSecondsPerStep > 0
        /\ Len(TickLoop.scheduled) <= MaxPassesPerTick
        /\ ~(TickLoop.nextNoteTime < currentTime + scheduleAheadTimeSec)
        /\ \A i \in 1 .. Len(TickLoop.scheduled) - 1 :
               TickLoop.scheduled[i + 1].time > TickLoop.scheduled[i].time
        /\ TickLoop.scheduled # << >> =>
               TickLoop.nextNoteTime >
                   TickLoop.scheduled[Len(TickLoop.scheduled)].time

\* the first tick after play(), delayed by a clock jump, at the fastest tempo
\* and finest resolution, has made its nine passes
C39_Witness ==
    /\ transport = [bpm |-> 300, resolution |-> 32]
    /\ currentTime = ClockJump
    /\ Len(scheduled) = 9
    /\ ~(nextNoteTime < currentTime + scheduleAheadTimeSec)

\* the steps of a bar that fall in beam group g
StepsOfGroup(g) ==
    {s \in 0 .. (stepsPerBar - 1) : BeamGroupOf(BeamProps, s) = g}

\* C40: the beam-group size stepsPerBar / beamGroupsPerBar is a whole number
\* of steps, at least 1, every step of the bar is in exactly one of the
\* beamGroupsPerBar groups, the groups have that many steps each, and no symbol
\* covers steps of two groups
C40_WholeBeamGroups ==
    LET groups == beamGroupsPerBar(timeSig)
    IN  /\ stepsPerBar % groups = 0
        /\ stepsPerBar \div groups >= 1
        /\ \A s \in 0 .. (stepsPerBar - 1) :
               BeamGroupOf(BeamProps, s) \in 0 .. (groups - 1)
        /\ \A g \in 0 .. (groups - 1) :
               Cardinality(StepsOfGroup(g)) * groups = stepsPerBar
        /\ \A i \in DOMAIN notation :
               BeamGroupOf(BeamProps, notation[i].start)
                   = BeamGroupOf(BeamProps,
                                 notation[i].start + notation[i].steps - 1)

=============================================================================
